---- MODULE Spec2Model ----
(***************************************************************************)
(* State-machine model of the MQTT push service:                           *)
(*   MqttService      (bus connection, watchdog reconnect)                  *)
(*   RedisService     (store connection)                                    *)
(*   MqttPushService  (start / stop / poll cycles / stats)                  *)
(* JavaScript runs handlers to completion; a continuation of an await that  *)
(* has been settled runs as a microtask before any other event, timer or    *)
(* external call.  A task whose pc is one of the "runnable" values stands   *)
(* for such a scheduled continuation, and every event, timer and external   *)
(* call is guarded by ~MicrotaskPending.                                    *)
(***************************************************************************)
EXTENDS Integers, Sequences, FiniteSets, TLC

\* ---------------------------------------------------------------- bounds
\* attempt numbers the store client hands to retry_strategy
MaxAttempt == 12
\* raw readings in the array given to processAndFormat called on its own
MaxRaw == 3
\* envelopes in the array given to a batch publish called on its own
MaxReadings == 2
\* entries of the value array of a raw reading
MaxValues == 2
\* pieces an encoded text given to decodeUTF8 is concatenated from
MaxPieces == 6
\* transport clients one MqttService object creates (initial + watchdog)
MaxClients == 3
\* start() invocations over the process lifetime
MaxStarts == 2
\* poll cycles (processSensorData invocations) that can be in flight together
MaxInFlight == 2
\* envelopes one store read can yield after processAndFormat
MaxBatch == 2
\* cap of the stats counters totalPublished and errors
MaxCount == 3
\* pending close timeouts of disconnect() (setTimeout 1000 ms) at one time
MaxEndTimers == 1

ClientIds == 1..MaxClients
StartIds == 1..MaxStarts
CycleIds == 1..MaxInFlight

VARIABLES
  bus,      \* the MqttService object referenced by this.mqttService
  store,    \* the RedisService object referenced by this.redisService
  svc,      \* fields of MqttPushService and the timers / hooks it installed
  starts,   \* position of each start() invocation
  cycles,   \* position of each processSensorData() invocation in flight
  stopPc,   \* position of an external stop() invocation
  cfg,      \* configuration: AUTO_REGISTER_ON_START
  hist,     \* observation of the run: what the last operations did
  io        \* a direct call of one operation: its arguments and what it returned

vars == <<bus, store, svc, starts, cycles, stopPc, cfg, hist, io>>

\* ------------------------------------------------------- MqttService (bus)
\* cstate[k]: transport state of the k-th client created by mqtt.connect
\*   none        not created
\*   connecting  first connection attempt in progress
\*   connected   client.connected = true
\*   offline     stream closed, built-in reconnect timer (reconnectPeriod) set
\*   reconnecting built-in reconnect attempt in progress
\*   endingC     end(true) issued on a connected client, 'close' not yet emitted
\*   ending      end(true) issued on a not-connected client, 'close' pending
\*   ended       ended and closed; emits nothing any more
\* cprom[k]: the promise returned by the connect() call that created client k:
\*   "init" / "wd" while pending (awaited by initialize() / attemptReconnect()),
\*   "done" once settled, "none" if never created.
\* reconnectAttempts is only used in log lines and is left out.
MqttServiceNew ==
  [ client |-> 0, nclients |-> 0,
    cstate |-> [k \in ClientIds |-> "none"],
    cprom  |-> [k \in ClientIds |-> "none"],
    isConnected |-> FALSE,
    manualReconnectEnabled |-> FALSE,
    reconnectTimer |-> FALSE,      \* this.reconnectTimer # null
    wdTimers |-> 0,                \* live watchdog interval timers
    lastStatus |-> "none",         \* last presence message handed to the transport
    endTimers |-> 0 ]              \* pending setTimeout(end, 1000) of disconnect()

\* stopManualReconnect that resets the flag and forgets clearInterval
stopManualReconnect_noClear(b) ==
  [b EXCEPT !.manualReconnectEnabled = FALSE]

stopManualReconnect(b) ==
  [b EXCEPT !.wdTimers = IF b.reconnectTimer THEN @ - 1 ELSE @,
            !.reconnectTimer = FALSE,
            !.manualReconnectEnabled = FALSE]

\* startManualReconnect without its already-armed guard
startManualReconnect_unguarded(b) ==
  [b EXCEPT !.manualReconnectEnabled = TRUE,
            !.reconnectTimer = TRUE,
            !.wdTimers = IF @ < 3 THEN @ + 1 ELSE @]

startManualReconnect(b) ==
  IF b.manualReconnectEnabled \/ b.reconnectTimer
  THEN b
  ELSE [b EXCEPT !.manualReconnectEnabled = TRUE,
                 !.reconnectTimer = TRUE,
                 !.wdTimers = @ + 1]

publishStatus(b, status) ==
  IF b.client = 0 THEN b ELSE [b EXCEPT !.lastStatus = status]

\* client.end(true) of the transport library on client k
endClient(b, k) ==
  [b EXCEPT !.cstate[k] =
     CASE @ = "connected" -> "endingC"
       [] @ \in {"connecting", "reconnecting"} -> "ending"
       [] @ = "offline" -> "ended"
       [] OTHER -> @]

\* synchronous part of connect(): mqtt.connect, handlers registered, promise created
connect(b, owner) ==
  LET k == b.nclients + 1 IN
  [b EXCEPT !.client = k, !.nclients = k,
            !.cstate[k] = "connecting", !.cprom[k] = owner]

attemptReconnect(b) ==
  connect(IF b.client # 0
          THEN [endClient(b, b.client) EXCEPT !.client = 0]
          ELSE b, "wd")

\* 'connect' handler that does not stop the watchdog
onConnect_keepsWatchdog(b) ==
  publishStatus([b EXCEPT !.isConnected = TRUE], "online")

onConnect(b) ==
  publishStatus(stopManualReconnect([b EXCEPT !.isConnected = TRUE]), "online")

\* 'error' handler that arms the watchdog but leaves isConnected set
onError_keepsFlag(b) == startManualReconnect(b)

onError(b) == startManualReconnect([b EXCEPT !.isConnected = FALSE])

onOffline(b) == startManualReconnect([b EXCEPT !.isConnected = FALSE])

onClose(b) == startManualReconnect([b EXCEPT !.isConnected = FALSE])

\* interval callback that makes one attempt and then disarms the watchdog
watchdogCallback_givesUp(b) ==
  IF b.isConnected THEN stopManualReconnect(b) ELSE stopManualReconnect(attemptReconnect(b))

\* interval callback armed by startManualReconnect
watchdogCallback(b) ==
  IF b.isConnected THEN stopManualReconnect(b) ELSE attemptReconnect(b)

TransportConnected(b) ==
  b.client # 0 /\ b.cstate[b.client] \in {"connected", "endingC"}

isReady(b) == b.isConnected /\ TransportConnected(b)

\* disconnect() that ends the client at once instead of after the 1000 ms wait
disconnect_closesAtOnce(b) ==
  LET b1 == stopManualReconnect(b) IN
  IF b1.client # 0
  THEN endClient(publishStatus(b1, "offline"), b1.client)
  ELSE b1

disconnect(b) ==
  LET b1 == stopManualReconnect(b) IN
  IF b1.client # 0
  THEN [publishStatus(b1, "offline") EXCEPT !.endTimers = @ + 1]
  ELSE b1

settle(b, k) == [b EXCEPT !.cprom[k] = IF @ = "none" THEN @ ELSE "done"]

\* ------------------------------------------------------ RedisService (store)
\* rstate: state of the library client created by redis.createClient
\*   none / connecting / open (socket connected, 'connect' emitted, not ready)
\*   ready (client.isReady) / reconnecting / ended
RedisServiceNew == [rstate |-> "none", isConnected |-> FALSE]

\* synchronous part of RedisService.connect(): client created, handlers set,
\* client.connect() awaited
redisConnect(r) == [r EXCEPT !.rstate = "connecting"]

redisOnConnect(r) == [r EXCEPT !.isConnected = TRUE]

redisOnError(r) == [r EXCEPT !.isConnected = FALSE]

redisOnReconnecting(r) == [r EXCEPT !.isConnected = FALSE]

redisOnEnd(r) == [r EXCEPT !.isConnected = FALSE]

redisIsReady(r) == r.isConnected /\ r.rstate # "none" /\ r.rstate = "ready"

\* guard at the head of getSensorData / getDeviceInfo
redisUsable(r) == r.isConnected /\ r.rstate # "none"

\* guard at the head of publishSensorData / publishDeviceRegistration
busUsable(b) == b.isConnected /\ b.client # 0

\* ----------------------------------------------------- JavaScript values
\* A value is a record tagged with its typeof; a string is the sequence of its
\* UTF-16 code units, an array a sequence of values, an object a record of
\* values in which a property that is not set holds Undefined.
Undefined == [t |-> "undefined"]

Null == [t |-> "null"]

Num(n) == [t |-> "number", v |-> n]

Str(s) == [t |-> "string", v |-> s]

Arr(a) == [t |-> "array", v |-> a]

Obj(r) == [t |-> "object", v |-> r]

\* ToBoolean of the language
Truthy(x) ==
  CASE x.t \in {"undefined", "null"} -> FALSE
    [] x.t = "number" -> x.v # 0
    [] x.t = "string" -> x.v # <<>>
    [] OTHER -> TRUE

\* x || y
OrElse(x, y) == IF Truthy(x) THEN x ELSE y

\* e.f: a property read; primitives and arrays have none of the properties read here
Prop(e, f) == IF e.t = "object" /\ f \in DOMAIN e.v THEN e.v[f] ELSE Undefined

\* ------------------------------------------ RedisService (retry_strategy)
\* an Error object carrying message m
Error(m) == [t |-> "error", v |-> m]

Min(a, b) == IF a < b THEN a ELSE b

\* retry_strategy without the ceiling on the attempt count
retry_strategy_noAttemptCeiling(options) ==
  IF options.error = "ECONNREFUSED" THEN Error("refused")
  ELSE IF options.total_retry_time > 1000 * 60 * 60 THEN Error("retryTime")
  ELSE Num(Min(options.attempt * 100, 3000))

\* retry_strategy(options): options.error is the code of the error that lost
\* the connection ("none" when there is no error object); what it returns is
\* an Error, undefined or the delay in ms
retry_strategy(options) ==
  IF options.error = "ECONNREFUSED" THEN Error("refused")
  ELSE IF options.total_retry_time > 1000 * 60 * 60 THEN Error("retryTime")
  ELSE IF options.attempt > 10 THEN Undefined
  ELSE Num(Min(options.attempt * 100, 3000))

\* ------------------------------------------- SensorProcessor (decodeUTF8)
IsHex(c) == c \in (48..57) \cup (65..70) \cup (97..102)

HexVal(c) ==
  CASE c \in 48..57 -> c - 48
    [] c \in 65..70 -> c - 55
    [] OTHER -> c - 87

\* the pattern \\x[0-9a-fA-F]{2} matches at position i of s
EscapeAt(s, i) ==
  /\ i + 3 <= Len(s)
  /\ s[i] = 92 /\ s[i + 1] = 120
  /\ IsHex(s[i + 2]) /\ IsHex(s[i + 3])

RECURSIVE ReplaceEscapes(_, _)
\* replace(/\\x([0-9a-fA-F]{2})/g, String.fromCharCode(parseInt(hex, 16))) from position i
ReplaceEscapes(s, i) ==
  IF i > Len(s) THEN <<>>
  ELSE IF EscapeAt(s, i)
       THEN <<16 * HexVal(s[i + 2]) + HexVal(s[i + 3])>> \o ReplaceEscapes(s, i + 4)
       ELSE <<s[i]>> \o ReplaceEscapes(s, i + 1)

\* Buffer.from(s, 'latin1'): the low byte of every code unit
Latin1Bytes(s) == [i \in 1..Len(s) |-> s[i] % 256]

RECURSIVE Utf8ToString(_, _)
\* buffer.toString('utf8') from position i: one- and two-byte sequences are
\* decoded, any other byte yields U+FFFD (lead bytes E0..F4 do not occur in
\* the texts decoded here)
Utf8ToString(b, i) ==
  IF i > Len(b) THEN <<>>
  ELSE IF b[i] < 128 THEN <<b[i]>> \o Utf8ToString(b, i + 1)
  ELSE IF b[i] \in 194..223 /\ i + 1 <= Len(b) /\ b[i + 1] \in 128..191
       THEN <<(b[i] - 192) * 64 + (b[i + 1] - 128)>> \o Utf8ToString(b, i + 2)
       ELSE <<65533>> \o Utf8ToString(b, i + 1)

decodeUTF8(x) ==
  IF ~Truthy(x) \/ x.t # "string" THEN Str(<<>>)
  ELSE IF ~\E i \in 1..Len(x.v) : EscapeAt(x.v, i) THEN x
  ELSE Str(Utf8ToString(Latin1Bytes(ReplaceEscapes(x.v, 1)), 1))

\* ---------------------------------------------- MqttService (publishing)
\* What the synchronous part of a publish operation did: error is the error it
\* threw ("none" if it did not), publishes the client.publish calls it made, in
\* order.  A topic is kept as its segments.
RECURSIVE NumberToString(_)
\* the decimal digits of a non-negative integer
NumberToString(n) ==
  IF n < 10 THEN <<48 + n>> ELSE NumberToString(n \div 10) \o <<48 + (n % 10)>>

\* x inside a template literal
ToText(x) == IF x.t = "number" THEN NumberToString(x.v) ELSE x.v

\* `${DEVICE_TOPIC_PREFIX}/${deviceName}/seninf`
seninfTopic(deviceName) ==
  [prefix |-> "DEVICE_TOPIC_PREFIX", deviceName |-> ToText(deviceName), leaf |-> "seninf"]

publishSensorData(b, deviceName, sensorData) ==
  IF ~busUsable(b)
  THEN [error |-> "NotConnected", publishes |-> <<>>]
  ELSE [error |-> "none",
        publishes |-> << [ topic |-> seninfTopic(deviceName),
                           payload |-> [ sensorData |-> sensorData, timestamp |-> "now",
                                         published_by |-> "MQTT_CLIENT_ID" ],
                           qos |-> 1, retain |-> FALSE ] >>]

\* one entry of the sensors list of publishBatchSensorDataWithDeviceName
sensorEntry(sensorData) ==
  [ device_info |-> Prop(sensorData, "device_info"),
    sensor_values |-> Prop(sensorData, "sensor_values"),
    profile |-> Prop(sensorData, "profile"),
    metadata |-> Prop(sensorData, "metadata") ]

deviceSensorList(sensorDataArray, deviceName) ==
  [ device_info |-> [ device_name |-> deviceName,
                      total_sensors |-> Len(sensorDataArray),
                      status |-> "active" ],
    sensors |-> [i \in 1..Len(sensorDataArray) |-> sensorEntry(sensorDataArray[i])],
    timestamp |-> "now",
    published_by |-> "MQTT_CLIENT_ID" ]

\* publishBatchSensorDataWithDeviceName that publishes every reading by itself
publishBatchSensorDataWithDeviceName_perReading(b, sensorDataArray, deviceName) ==
  IF ~busUsable(b)
  THEN [error |-> "NotConnected", publishes |-> <<>>]
  ELSE [error |-> "none",
        publishes |-> [i \in 1..Len(sensorDataArray) |->
                         [ topic |-> seninfTopic(deviceName),
                           payload |-> deviceSensorList(<<sensorDataArray[i]>>, deviceName),
                           qos |-> 1, retain |-> FALSE ]]]

publishBatchSensorDataWithDeviceName(b, sensorDataArray, deviceName) ==
  IF ~busUsable(b)
  THEN [error |-> "NotConnected", publishes |-> <<>>]
  ELSE [error |-> "none",
        publishes |-> << [ topic |-> seninfTopic(deviceName),
                           payload |-> deviceSensorList(sensorDataArray, deviceName),
                           qos |-> 1, retain |-> FALSE ] >>]

\* the device name publishBatchSensorData picks for one envelope;
\* "device_" and "unknown_device" as code units
batchDeviceName(sensorData) ==
  IF Truthy(Prop(sensorData, "device_info"))
     /\ Truthy(Prop(Prop(sensorData, "device_info"), "serial_number"))
  THEN Prop(Prop(sensorData, "device_info"), "serial_number")
  ELSE IF Truthy(Prop(sensorData, "SN")) THEN Prop(sensorData, "SN")
  ELSE IF Truthy(Prop(sensorData, "ADDRESS"))
       THEN Str(<<100, 101, 118, 105, 99, 101, 95>> \o ToText(Prop(sensorData, "ADDRESS")))
       ELSE Str(<<117, 110, 107, 110, 111, 119, 110, 95, 100, 101, 118, 105, 99, 101>>)

RECURSIVE batchPublishes(_, _, _)
\* the client.publish calls the loop of publishBatchSensorData makes from entry i on
batchPublishes(b, sensorDataArray, i) ==
  IF i > Len(sensorDataArray) THEN <<>>
  ELSE publishSensorData(b, batchDeviceName(sensorDataArray[i]), sensorDataArray[i]).publishes
         \o batchPublishes(b, sensorDataArray, i + 1)

\* publishBatchSensorData up to its await: it throws nothing, every rejection
\* of publishSensorData is turned into a result; failed counts the envelopes
\* whose publishSensorData threw at once
publishBatchSensorData(b, sensorDataArray) ==
  [ error |-> "none",
    publishes |-> batchPublishes(b, sensorDataArray, 1),
    failed |-> Cardinality({i \in 1..Len(sensorDataArray) :
                 publishSensorData(b, batchDeviceName(sensorDataArray[i]),
                                   sensorDataArray[i]).error # "none"}) ]

publishDeviceRegistration(b, deviceData) ==
  IF ~busUsable(b) THEN [error |-> "NotConnected", publishes |-> <<>>]
  ELSE IF ~Truthy(Prop(deviceData, "deviceSN")) \/ ~Truthy(Prop(deviceData, "ip"))
  THEN [error |-> "IncompleteIdentity", publishes |-> <<>>]
  ELSE [error |-> "none",
        publishes |-> << [ topic |-> "device/name",
                           payload |-> [ deviceSN |-> Prop(deviceData, "deviceSN"),
                                         ip |-> Prop(deviceData, "ip"),
                                         clientId |-> "MQTT_CLIENT_ID",
                                         registeredAt |-> "now", action |-> "register" ],
                           qos |-> 1, retain |-> FALSE ] >>]

\* getSensorData up to its await: the guard, then client.get; commands counts
\* the commands handed to the store client
getSensorDataCommand(r) ==
  IF ~redisUsable(r) THEN [error |-> "NotConnected", commands |-> 0]
  ELSE [error |-> "none", commands |-> 1]

\* ------------------------------------------------------------ unit catalog
\* the entries of the unit array, in order: code and name as code units (the
\* unit and img fields are not read by anything modelled here)
unit ==
  << [code |-> <<66>>, name |-> <<28629, 24230>>],
     [code |-> <<67>>, name |-> <<20108, 27687, 21270, 30899>>],
     [code |-> <<68>>, name |-> <<27688, 27683, 28611, 24230>>],
     [code |-> <<69>>, name |-> <<80, 77, 32, 49, 46, 48>>],
     [code |-> <<70>>, name |-> <<80, 77, 32, 50, 46, 53>>],
     [code |-> <<71>>, name |-> <<80, 77, 49, 48>>],
     [code |-> <<65>>, name |-> <<28331, 24230>>],
     [code |-> <<72>>, name |-> <<30827, 21270, 27691, 28611, 24230>>],
     [code |-> <<73>>, name |-> <<29031, 24230>>],
     [code |-> <<74>>, name |-> <<27687, 27683, 28611, 24230>>],
     [code |-> <<75>>, name |-> <<39164, 26009, 20379, 32102, 37327>>],
     [code |-> <<76>>, name |-> <<39154, 29992, 27700, 37327>>],
     [code |-> <<77>>, name |-> <<28082, 20301>>],
     [code |-> <<78>>, name |-> <<27700, 20301, 29376, 24907>>],
     [code |-> <<79>>, name |-> <<21363, 26178, 37325, 37327>>],
     [code |-> <<80>>, name |-> <<30636, 38291, 21151, 29575>>],
     [code |-> <<81>>, name |-> <<37325, 37327>>],
     [code |-> <<82>>, name |-> <<39080, 36895>>],
     [code |-> <<83>>, name |-> <<36000, 22739>>],
     [code |-> <<57>>, name |-> <<34395, 25836>>],
     [code |-> <<84>>, name |-> <<38283, 38364, 37327>>],
     [code |-> <<88>>, name |-> <<38651, 27969>>],
     [code |-> <<87>>, name |-> <<38651, 22739>>],
     [code |-> <<90>>, name |-> <<24230>>],
     [code |-> <<89>>, name |-> <<21363, 26178, 21151, 29575>>],
     [code |-> <<85>>, name |-> <<21151, 29575, 22240, 25976>>],
     [code |-> <<86>>, name |-> <<39080, 21521>>],
     [code |-> <<97>>, name |-> <<32043, 22806, 32218, 24375, 24230>>],
     [code |-> <<98>>, name |-> <<20809, 37327, 23376>>],
     [code |-> <<99>>, name |-> <<38632, 28404, 24863, 30693>>],
     [code |-> <<100>>, name |-> <<38651, 23566, 24230>>],
     [code |-> <<101>>, name |-> <<80, 72>>],
     [code |-> <<102>>, name |-> <<27700, 27963, 24615>>],
     [code |-> <<103>>, name |-> <<30064, 24120, 20540>>] >>

\* getUnitByCode(code): the first entry whose code === code, or null
getUnitByCode(code) ==
  LET hits == {i \in 1..Len(unit) : code = Str(unit[i].code)} IN
  IF hits = {} THEN Null
  ELSE Obj([ code |-> Str(unit[CHOOSE i \in hits : \A j \in hits : i <= j].code),
             name |-> Str(unit[CHOOSE i \in hits : \A j \in hits : i <= j].name) ])

\* ------------------------------------------------------- SensorProcessor
IsDigit(c) == c \in 48..57

RECURSIVE DigitRun(_, _)
\* length of the run of digits of s that starts at position i
DigitRun(s, i) == IF i <= Len(s) /\ IsDigit(s[i]) THEN 1 + DigitRun(s, i + 1) ELSE 0

RECURSIVE DigitsValue(_, _, _)
\* the number written by the k digits of s from position i
DigitsValue(s, i, k) ==
  IF k = 0 THEN 0 ELSE 10 * DigitsValue(s, i, k - 1) + (s[i + k - 1] - 48)

NaN == [t |-> "NaN"]

\* parseFloat of the language: a number is itself, a string is read up to the
\* end of its longest numeric prefix (sign and digits; the strings parsed here
\* hold no white space, fraction or exponent), anything else is NaN
parseFloat(x) ==
  CASE x.t = "number" -> x
    [] x.t = "string" ->
         LET neg == Len(x.v) > 0 /\ x.v[1] = 45
             from == IF neg THEN 2 ELSE 1
             k == DigitRun(x.v, from)
         IN IF k = 0 THEN NaN
            ELSE Num((IF neg THEN -1 ELSE 1) * DigitsValue(x.v, from, k))
    [] OTHER -> NaN

parseNumber(value) ==
  IF value.t \in {"null", "undefined"} \/ (value.t = "string" /\ value.v = <<>>)
  THEN Null
  ELSE IF parseFloat(value) = NaN THEN Null ELSE parseFloat(value)

validateRange(min, max) ==
  IF min.t = "null" \/ max.t = "null" THEN FALSE ELSE min.v < max.v

\* this.sensorTypes[code]
sensorTypes(code) ==
  IF code.t # "string" THEN Undefined
  ELSE CASE code.v = <<65>> -> Str(<<28331, 24230>>)
         [] code.v = <<66>> -> Str(<<28629, 24230>>)
         [] code.v = <<67>> -> Str(<<20108, 27687, 21270, 30899>>)
         [] code.v = <<83>> -> Str(<<36000, 22739>>)
         [] code.v = <<82>> -> Str(<<39080, 36895>>)
         [] code.v = <<76>> -> Str(<<39154, 29992, 27700, 37327>>)
         [] OTHER -> Undefined

\* callback of the map in processValueArray: reading a property of null or
\* undefined throws, the catch returns the raw entry
processValue(value) ==
  IF value.t \in {"null", "undefined"} THEN value
  ELSE LET max == parseNumber(Prop(value, "max"))
           min == parseNumber(Prop(value, "min"))
       IN Obj([ _id |-> Prop(value, "_id"),
                name |-> decodeUTF8(OrElse(Prop(value, "name"), Str(<<>>))),
                max |-> max,
                min |-> min,
                code |-> Prop(value, "code"),
                calc |-> OrElse(Prop(value, "calc"), Null),
                type |-> OrElse(sensorTypes(Prop(value, "code")),
                                Str(<<26410, 30693, 39006, 22411>>)),
                range_valid |-> validateRange(min, max) ])

processValueArray(valueArray) ==
  IF valueArray.t # "array" THEN Arr(<<>>)
  ELSE Arr([i \in 1..Len(valueArray.v) |-> processValue(valueArray.v[i])])

\* determineSensorStatus that looks at name and description first
determineSensorStatus_infoFirst(sensor) ==
  LET value == sensor.value.v IN
  IF Len(value) = 0 THEN "no_values"
  ELSE IF \E i \in 1..Len(value) : value[i].t \in {"null", "undefined"} THEN "error"
  ELSE IF ~Truthy(sensor.name) \/ ~Truthy(sensor.DES) THEN "incomplete_info"
  ELSE IF \A i \in 1..Len(value) : ~value[i].v.range_valid THEN "invalid_range"
  ELSE "active"

\* sensor: the fields of decodedSensor.  The filter reads range_valid of every
\* entry; on an entry that is null or undefined that throws and the catch
\* returns 'error'
determineSensorStatus(sensor) ==
  LET value == sensor.value.v IN
  IF Len(value) = 0 THEN "no_values"
  ELSE IF \E i \in 1..Len(value) : value[i].t \in {"null", "undefined"} THEN "error"
  ELSE IF \A i \in 1..Len(value) : ~value[i].v.range_valid THEN "invalid_range"
  ELSE IF ~Truthy(sensor.name) \/ ~Truthy(sensor.DES) THEN "incomplete_info"
  ELSE "active"

processSingleSensor(sensor) ==
  IF ~Truthy(sensor) \/ sensor.t \notin {"object", "array"} THEN Null
  ELSE IF ~Truthy(Prop(sensor, "SN")) \/ ~Truthy(Prop(sensor, "ADDRESS")) THEN Null
  ELSE LET decodedSensor ==
             [ SN |-> Prop(sensor, "SN"),
               DES |-> decodeUTF8(OrElse(Prop(sensor, "DES"), Str(<<>>))),
               ADDRESS |-> Prop(sensor, "ADDRESS"),
               name |-> decodeUTF8(OrElse(Prop(sensor, "name"), Str(<<>>))),
               profile |-> OrElse(Prop(sensor, "profile"), Str(<<>>)),
               value |-> processValueArray(OrElse(Prop(sensor, "value"), Arr(<<>>))),
               processed_at |-> "now" ]
       IN Obj([ SN |-> decodedSensor.SN,
                DES |-> decodedSensor.DES,
                ADDRESS |-> decodedSensor.ADDRESS,
                name |-> decodedSensor.name,
                profile |-> decodedSensor.profile,
                value |-> decodedSensor.value,
                processed_at |-> decodedSensor.processed_at,
                status |-> determineSensorStatus(decodedSensor) ])

\* processSensorData: anything but an array gives [], an array is mapped
\* through processSingleSensor and the nulls are filtered out; every throw is
\* caught inside processSingleSensor
processSensorData(sensorDataArray) ==
  IF sensorDataArray.t # "array" THEN Arr(<<>>)
  ELSE Arr(SelectSeq([i \in 1..Len(sensorDataArray.v) |-> processSingleSensor(sensorDataArray.v[i])],
                     LAMBDA sensor : sensor.t # "null"))

\* one entry of sensor_values in formatForMqtt
formatValue(value) ==
  Obj([ id |-> Prop(value, "_id"),
        name |-> Prop(value, "name"),
        type |-> Prop(value, "type"),
        code |-> Prop(value, "code"),
        range |-> Obj([ min |-> Prop(value, "min"), max |-> Prop(value, "max"),
                        valid |-> Prop(value, "range_valid") ]),
        calculation |-> Prop(value, "calc") ])

\* formatForMqtt: reading _id of a value entry that is null or undefined
\* throws, and the catch returns the reading as it was given
formatForMqtt(sensor) ==
  IF \E i \in 1..Len(sensor.v.value.v) : sensor.v.value.v[i].t \in {"null", "undefined"}
  THEN sensor
  ELSE Obj([ device_info |-> Obj([ serial_number |-> sensor.v.SN,
                                   description |-> sensor.v.DES,
                                   address |-> sensor.v.ADDRESS,
                                   name |-> sensor.v.name,
                                   status |-> sensor.v.status ]),
             sensor_values |-> Arr([i \in 1..Len(sensor.v.value.v) |->
                                      formatValue(sensor.v.value.v[i])]),
             profile |-> sensor.v.profile,
             metadata |-> Obj([ processed_at |-> sensor.v.processed_at,
                                total_sensors |-> Num(Len(sensor.v.value.v)) ]) ])

processAndFormat(sensorDataArray) ==
  LET processedData == processSensorData(sensorDataArray) IN
  Arr([i \in 1..Len(processedData.v) |-> formatForMqtt(processedData.v[i])])

\* --------------------------------------------------- MqttPushService (svc)
MqttPushServiceNew ==
  [ isRunning |-> FALSE,
    redisService |-> FALSE,        \* this.redisService # null
    mqttService |-> FALSE,         \* this.mqttService # null
    pollTimer |-> FALSE,           \* this.pollTimer # null
    pollTimers |-> 0,              \* live poll interval timers
    startTime |-> "constructed",   \* stats.startTime: the instant of construction
    totalPublished |-> 0, errors |-> 0,
    lastPublishTime |-> FALSE,     \* stats.lastPublishTime # null
    hooks |-> 0 ]                  \* times setupGracefulShutdown installed handlers

\* src = 0: invoked by the poll timer; src = s: awaited by start invocation s
IdleCycle == [pc |-> "idle", src |-> 0, n |-> 0, pend |-> 0, fail |-> 0, afterStop |-> FALSE]

Runnable == {"afterStore", "afterInit", "initFailed", "afterCycle", "cycleFailed"}

MicrotaskPending == \E s \in StartIds : starts[s] \in Runnable

FreeSlot(c) == cycles[c].pc = "idle" /\ \A d \in CycleIds : d < c => cycles[d].pc # "idle"

Retarget(from, to) == [s \in StartIds |-> IF starts[s] = from THEN to ELSE starts[s]]

\* no direct call was made
NoCall == [op |-> "none"]

Init ==
  /\ bus = MqttServiceNew
  /\ store = RedisServiceNew
  /\ svc = MqttPushServiceNew
  /\ starts = [s \in StartIds |-> "new"]
  /\ cycles = [c \in CycleIds |-> IdleCycle]
  /\ stopPc = "idle"
  /\ cfg \in BOOLEAN
  /\ hist = [stopCalled |-> FALSE, lastBegin |-> "none", lastTick |-> "none",
             lastRead |-> "none"]
  /\ io = NoCall

\* ---- processSensorData
\* head of processSensorData that checks the store only
BeginOutcome_storeOnly(sv) ==
  CASE ~sv.isRunning -> "stopped"
    [] ~redisIsReady(store) -> "skipStore"
    [] ~redisUsable(store) -> "throw"
    [] OTHER -> "read"

\* what the synchronous head of processSensorData decides
BeginOutcome(sv) ==
  CASE ~sv.isRunning -> "stopped"
    [] ~redisIsReady(store) -> "skipStore"
    [] ~isReady(bus) -> "skipBus"
    [] ~redisUsable(store) -> "throw"
    [] OTHER -> "read"

\* hist.lastTick: which log line the last watchdog tick wrote ("stopped" for
\* the isConnected branch, "reconnect" for an attempt).
\* hist.lastBegin: what the last processSensorData() head did; "resumed" is a
\* read begun by the first invocation after one skipped for the bus
Observe(o) == IF o = "read" /\ hist.lastBegin = "skipBus" THEN "resumed" ELSE o

\* updateStats that does not look at the results
updateStats_ignoresResults(sv, publishedCount, failedCount) ==
  [sv EXCEPT !.totalPublished = @ + publishedCount,
             !.lastPublishTime = TRUE]

updateStats(sv, publishedCount, failedCount) ==
  [sv EXCEPT !.totalPublished = @ + publishedCount,
             !.lastPublishTime = TRUE,
             !.errors = IF failedCount > 0 THEN @ + failedCount ELSE @]

\* healthCheck(): the status and services fields of the object it returns
healthCheck(sv) ==
  [ status |-> IF sv.isRunning THEN "healthy" ELSE "stopped",
    services |-> [redis |-> sv.redisService /\ redisIsReady(store),
                  mqtt |-> sv.mqttService /\ isReady(bus)] ]

WithinCaps(sv) == sv.totalPublished <= MaxCount /\ sv.errors <= MaxCount

\* the cycle in slot c settles; sv is svc as the cycle body left it
EndCycle(c, threw, sv) ==
  LET src == cycles[c].src
      sv1 == IF threw THEN [sv EXCEPT !.errors = @ + 1] ELSE sv      \* catch of processSensorData
      sv2 == IF threw /\ src = 0 THEN [sv1 EXCEPT !.errors = @ + 1] ELSE sv1  \* catch of the interval callback
  IN /\ WithinCaps(sv2)
     /\ svc' = sv2
     /\ cycles' = [cycles EXCEPT ![c] = IdleCycle]
     /\ starts' = IF src = 0 THEN starts
                  ELSE [starts EXCEPT ![src] = IF threw THEN "cycleFailed" ELSE "afterCycle"]

\* interval callback of startPolling: one processSensorData() invocation
PollTick ==
  /\ ~MicrotaskPending
  /\ svc.pollTimers > 0
  /\ LET o == BeginOutcome(svc) IN
     /\ o # "throw"
     /\ hist' = [hist EXCEPT !.lastBegin = Observe(o)]
     /\ IF o = "read"
        THEN \E c \in CycleIds :
               /\ FreeSlot(c)
               /\ cycles' = [cycles EXCEPT ![c] =
                    [IdleCycle EXCEPT !.pc = "read", !.afterStop = hist.stopCalled]]
        ELSE cycles' = cycles
  /\ UNCHANGED <<bus, store, svc, starts, stopPc, cfg, io>>

\* start() that arms the poll timer before its immediate cycle
ContinueToCycle_armsFirst(s, sv) ==
  LET o == BeginOutcome(sv) IN
  /\ o # "throw"
  /\ WithinCaps(sv)
  /\ svc' = [sv EXCEPT !.pollTimer = TRUE, !.pollTimers = @ + 1]
  /\ hist' = [hist EXCEPT !.lastBegin = Observe(o)]
  /\ IF o = "read"
     THEN \E c \in CycleIds :
            /\ FreeSlot(c)
            /\ cycles' = [cycles EXCEPT ![c] =
                 [IdleCycle EXCEPT !.pc = "read", !.src = s, !.afterStop = hist.stopCalled]]
            /\ starts' = [starts EXCEPT ![s] = "cycle"]
     ELSE /\ cycles' = cycles
          /\ starts' = [starts EXCEPT ![s] = "afterCycle"]

\* processSensorData() as called from start(): synchronous head, sv = svc so far
ContinueToCycle(s, sv) ==
  LET o == BeginOutcome(sv) IN
  /\ o # "throw"
  /\ WithinCaps(sv)
  /\ svc' = sv
  /\ hist' = [hist EXCEPT !.lastBegin = Observe(o)]
  /\ IF o = "read"
     THEN \E c \in CycleIds :
            /\ FreeSlot(c)
            /\ cycles' = [cycles EXCEPT ![c] =
                 [IdleCycle EXCEPT !.pc = "read", !.src = s, !.afterStop = hist.stopCalled]]
            /\ starts' = [starts EXCEPT ![s] = "cycle"]
     ELSE /\ cycles' = cycles
          /\ starts' = [starts EXCEPT ![s] = "afterCycle"]

\* getSensorData that treats an absent key as a failed read
getSensorData_absentThrows(r) == IF r = "data" THEN "data" ELSE "throw"

\* getSensorData after client.get settled with r: the key is absent (null),
\* the get rejected or the payload does not parse, or a payload was parsed
getSensorData(r) ==
  CASE r = "absent" -> "empty"
    [] r = "error" -> "throw"
    [] OTHER -> "data"

\* the store answers the get of getSensorData; r: absent key, failed read or
\* unparsable payload, or data that processAndFormat turns into n envelopes.
\* hist.lastRead: what the last answered read of a cycle was
ReadReply(c, r, n) ==
  /\ ~MicrotaskPending
  /\ cycles[c].pc = "read"
  /\ hist' = [hist EXCEPT !.lastRead = r]
  /\ UNCHANGED <<bus, store, stopPc, cfg, io>>
  /\ CASE getSensorData(r) = "empty" -> n = 0 /\ EndCycle(c, FALSE, svc)
       [] getSensorData(r) = "throw" -> n = 0 /\ EndCycle(c, TRUE, svc)
       [] r = "data" /\ n = 0 -> EndCycle(c, FALSE, svc)
       [] r = "data" /\ n > 0 /\ ~busUsable(bus) ->
            \* every publishSensorData throws; allSettled resolves at once
            EndCycle(c, FALSE, updateStats(svc, n, n))
       [] OTHER ->
            /\ cycles' = [cycles EXCEPT ![c].pc = "pub", ![c].n = n, ![c].pend = n]
            /\ UNCHANGED <<svc, starts>>

\* the transport calls back one pending publish of cycle c
PubAck(c, ok) ==
  /\ ~MicrotaskPending
  /\ cycles[c].pc = "pub"
  /\ UNCHANGED <<bus, store, stopPc, cfg, hist, io>>
  /\ LET fail == cycles[c].fail + (IF ok THEN 0 ELSE 1) IN
     IF cycles[c].pend > 1
     THEN /\ cycles' = [cycles EXCEPT ![c].pend = @ - 1, ![c].fail = fail]
          /\ UNCHANGED <<svc, starts>>
     ELSE EndCycle(c, FALSE, updateStats(svc, cycles[c].n, fail))

\* ---- start / initialize / registerDevice
\* start() without the isRunning guard
StartCall_unguarded(s) ==
  /\ ~MicrotaskPending
  /\ starts[s] = "new"
  /\ \A t \in StartIds : t < s => starts[t] # "new"
  /\ hist' = [hist EXCEPT !.stopCalled = FALSE]
  /\ UNCHANGED <<bus, cycles, stopPc, cfg, io>>
  /\ svc' = [svc EXCEPT !.redisService = TRUE]
  /\ store' = redisConnect(RedisServiceNew)
  /\ starts' = [Retarget("initStore", "initStoreX") EXCEPT ![s] = "initStore"]

\* start(): guard, then initialize() up to the await of redisService.connect()
StartCall(s) ==
  /\ ~MicrotaskPending
  /\ starts[s] = "new"
  /\ \A t \in StartIds : t < s => starts[t] # "new"
  /\ hist' = [hist EXCEPT !.stopCalled = FALSE]
  /\ UNCHANGED <<bus, cycles, stopPc, cfg, io>>
  /\ IF svc.isRunning
     THEN /\ starts' = [starts EXCEPT ![s] = "noop"]
          /\ UNCHANGED <<store, svc>>
     ELSE /\ svc' = [svc EXCEPT !.redisService = TRUE]
          /\ store' = redisConnect(RedisServiceNew)
          /\ starts' = [Retarget("initStore", "initStoreX") EXCEPT ![s] = "initStore"]

\* initialize() after the store connected: new MqttService, connect() awaited
StartAfterStore(s) ==
  /\ starts[s] = "afterStore"
  /\ svc' = [svc EXCEPT !.mqttService = TRUE]
  /\ bus' = connect(MqttServiceNew, "init")
  /\ starts' = [Retarget("initBus", "initBusX") EXCEPT ![s] = "initBus"]
  /\ UNCHANGED <<store, cycles, stopPc, cfg, hist, io>>

\* registerDevice() up to its first await; TRUE when it threw synchronously
RegisterThrowsAtOnce ==
  ~redisIsReady(store) \/ ~isReady(bus) \/ ~redisUsable(store)

\* start() after initialize(): isRunning, registerDevice, processSensorData
StartAfterInit(s) ==
  /\ starts[s] = "afterInit"
  /\ UNCHANGED <<bus, store, stopPc, cfg, io>>
  /\ LET sv == [svc EXCEPT !.isRunning = TRUE] IN
     IF cfg
     THEN IF RegisterThrowsAtOnce
          THEN ContinueToCycle(s, [sv EXCEPT !.errors = @ + 1])
          ELSE /\ svc' = sv
               /\ starts' = [starts EXCEPT ![s] = "regRead"]
               /\ UNCHANGED <<cycles, hist>>
     ELSE ContinueToCycle(s, sv)

\* the store answers the two gets of getDeviceInfo
RegReadReply(s, r) ==
  /\ ~MicrotaskPending
  /\ starts[s] = "regRead"
  /\ UNCHANGED <<bus, store, stopPc, cfg, io>>
  /\ IF r = "ok" /\ busUsable(bus)
     THEN /\ starts' = [starts EXCEPT ![s] = "regPub"]
          /\ UNCHANGED <<svc, cycles, hist>>
     ELSE ContinueToCycle(s, [svc EXCEPT !.errors = @ + 1])

\* registerDevice without its catch: a rejected registration publish reaches
\* the catch of start()
RegPubAck_propagates(s, ok) ==
  /\ ~MicrotaskPending
  /\ starts[s] = "regPub"
  /\ UNCHANGED <<bus, store, stopPc, cfg, io>>
  /\ IF ok THEN ContinueToCycle(s, svc)
     ELSE /\ starts' = [starts EXCEPT ![s] = "cycleFailed"]
          /\ UNCHANGED <<svc, cycles, hist>>

\* the transport calls back the publish of publishDeviceRegistration
RegPubAck(s, ok) ==
  /\ ~MicrotaskPending
  /\ starts[s] = "regPub"
  /\ UNCHANGED <<bus, store, stopPc, cfg, io>>
  /\ ContinueToCycle(s, IF ok THEN svc ELSE [svc EXCEPT !.errors = @ + 1])

startPolling(sv) == [sv EXCEPT !.pollTimer = TRUE, !.pollTimers = @ + 1]

setupGracefulShutdown(sv) == [sv EXCEPT !.hooks = @ + 1]

\* start() after the immediate cycle returned
StartAfterCycle(s) ==
  /\ starts[s] = "afterCycle"
  /\ svc' = setupGracefulShutdown(startPolling(svc))
  /\ starts' = [starts EXCEPT ![s] = "done"]
  /\ UNCHANGED <<bus, store, cycles, stopPc, cfg, hist, io>>

\* ---- stop
\* stop() that also starts the statistics afresh
stopSvc_resetsStats(sv) ==
  [sv EXCEPT !.isRunning = FALSE,
             !.pollTimers = IF sv.pollTimer THEN @ - 1 ELSE @,
             !.pollTimer = FALSE,
             !.startTime = "stopped",
             !.totalPublished = 0, !.errors = 0, !.lastPublishTime = FALSE]

\* stop() up to the await of redisService.disconnect()
stopSvc(sv) ==
  [sv EXCEPT !.isRunning = FALSE,
             !.pollTimers = IF sv.pollTimer THEN @ - 1 ELSE @,
             !.pollTimer = FALSE]

\* stop() that leaves the bus as it is
stopBus_skipped(sv, b) == b

stopBus(sv, b) == IF sv.mqttService THEN disconnect(b) ELSE b

\* catch of start(): stop() is awaited, then the error is rethrown
StartFail(s) ==
  /\ starts[s] \in {"initFailed", "cycleFailed"}
  /\ bus.endTimers < MaxEndTimers
  /\ svc' = stopSvc(svc)
  /\ bus' = stopBus(svc, bus)
  /\ starts' = [starts EXCEPT ![s] = IF svc.redisService THEN "failStopping" ELSE "rejected"]
  /\ hist' = [hist EXCEPT !.stopCalled = TRUE]
  /\ UNCHANGED <<store, cycles, stopPc, cfg, io>>

\* stop() invoked from outside
StopCall ==
  /\ ~MicrotaskPending
  /\ stopPc = "idle"
  /\ bus.endTimers < MaxEndTimers
  /\ svc' = stopSvc(svc)
  /\ bus' = stopBus(svc, bus)
  /\ stopPc' = IF svc.redisService THEN "quitting" ELSE "idle"
  /\ hist' = [hist EXCEPT !.stopCalled = TRUE]
  /\ UNCHANGED <<store, starts, cycles, cfg, io>>

\* client.quit() of RedisService.disconnect() settles; a rejection is swallowed.
\* who = 0: the external stop(); who = s: the stop() awaited by start s
QuitSettle(who, ok) ==
  /\ ~MicrotaskPending
  /\ IF who = 0
     THEN stopPc = "quitting" /\ stopPc' = "idle" /\ starts' = starts
     ELSE starts[who] = "failStopping" /\ starts' = [starts EXCEPT ![who] = "rejected"]
          /\ stopPc' = stopPc
  /\ store' = IF ok THEN redisOnEnd([store EXCEPT !.rstate = "ended"]) ELSE store
  /\ UNCHANGED <<bus, svc, cycles, cfg, hist, io>>

\* ---- store library events
RSocketConnect ==
  /\ ~MicrotaskPending
  /\ store.rstate \in {"connecting", "reconnecting"}
  /\ store' = redisOnConnect([store EXCEPT !.rstate = "open"])
  /\ UNCHANGED <<bus, svc, starts, cycles, stopPc, cfg, hist, io>>

\* the client becomes ready; a pending client.connect() resolves
RReady ==
  /\ ~MicrotaskPending
  /\ store.rstate = "open"
  /\ store' = [store EXCEPT !.rstate = "ready"]
  /\ starts' = Retarget("initStore", "afterStore")
  /\ UNCHANGED <<bus, svc, cycles, stopPc, cfg, hist, io>>

\* the socket is lost: 'error' then 'reconnecting'
RDrop ==
  /\ ~MicrotaskPending
  /\ store.rstate \in {"open", "ready"}
  /\ store' = redisOnReconnecting(redisOnError([store EXCEPT !.rstate = "reconnecting"]))
  /\ UNCHANGED <<bus, svc, starts, cycles, stopPc, cfg, hist, io>>

\* initialize() that swallows a failed store connect and goes on to the bus
RGiveUp_swallowed ==
  /\ ~MicrotaskPending
  /\ \/ store.rstate \in {"connecting", "reconnecting"}
     \/ store.rstate = "ended" /\ \E s \in StartIds : starts[s] = "initStore"
  /\ store' = redisOnError([store EXCEPT !.rstate = "ended"])
  /\ starts' = Retarget("initStore", "afterStore")
  /\ UNCHANGED <<bus, svc, cycles, stopPc, cfg, hist, io>>

\* the library gives up (retry_strategy returned no delay, or the client was
\* closed): 'error', a pending client.connect() rejects
RGiveUp ==
  /\ ~MicrotaskPending
  /\ \/ store.rstate \in {"connecting", "reconnecting"}
     \/ store.rstate = "ended" /\ \E s \in StartIds : starts[s] = "initStore"
  /\ store' = redisOnError([store EXCEPT !.rstate = "ended"])
  /\ starts' = Retarget("initStore", "initFailed")
  /\ UNCHANGED <<bus, svc, cycles, stopPc, cfg, hist, io>>

\* ---- bus transport events and timers
TConnect(k) ==
  /\ ~MicrotaskPending
  /\ bus.cstate[k] \in {"connecting", "reconnecting"}
  /\ bus' = settle(onConnect([bus EXCEPT !.cstate[k] = "connected"]), k)
  /\ starts' = IF bus.cprom[k] = "init" THEN Retarget("initBus", "afterInit") ELSE starts
  /\ UNCHANGED <<store, svc, cycles, stopPc, cfg, hist, io>>

TError(k) ==
  /\ ~MicrotaskPending
  /\ bus.cstate[k] \in {"connecting", "reconnecting", "connected"}
  /\ bus' = settle(onError(bus), k)
  /\ starts' = IF bus.cprom[k] = "init" THEN Retarget("initBus", "initFailed") ELSE starts
  /\ UNCHANGED <<store, svc, cycles, stopPc, cfg, hist, io>>

\* stream closed: 'offline' (when the built-in reconnect is set up) and 'close'
TClose(k) ==
  /\ ~MicrotaskPending
  /\ \/ /\ bus.cstate[k] \in {"connecting", "connected", "reconnecting"}
        /\ bus' = onClose(onOffline([bus EXCEPT !.cstate[k] = "offline"]))
     \/ /\ bus.cstate[k] \in {"ending", "endingC"}
        /\ bus' = onClose([bus EXCEPT !.cstate[k] = "ended"])
  /\ UNCHANGED <<store, svc, starts, cycles, stopPc, cfg, hist, io>>

\* built-in reconnect timer (reconnectPeriod) fires: 'reconnect'
TReconnect(k) ==
  /\ ~MicrotaskPending
  /\ bus.cstate[k] = "offline"
  /\ bus' = [bus EXCEPT !.cstate[k] = "reconnecting"]
  /\ UNCHANGED <<store, svc, starts, cycles, stopPc, cfg, hist, io>>

\* the 30 s timer of connect() fires before 'connect' or 'error'
TConnectTimeout(k) ==
  /\ ~MicrotaskPending
  /\ bus.cprom[k] \in {"init", "wd"}
  /\ bus' = settle(bus, k)
  /\ starts' = IF bus.cprom[k] = "init" THEN Retarget("initBus", "initFailed") ELSE starts
  /\ UNCHANGED <<store, svc, cycles, stopPc, cfg, hist, io>>

WatchdogTick ==
  /\ ~MicrotaskPending
  /\ bus.wdTimers > 0
  /\ bus.isConnected \/ bus.nclients < MaxClients
  /\ bus' = watchdogCallback(bus)
  /\ hist' = [hist EXCEPT !.lastTick = IF bus.isConnected THEN "stopped" ELSE "reconnect"]
  /\ UNCHANGED <<store, svc, starts, cycles, stopPc, cfg, io>>

\* the setTimeout of disconnect() fires: this.client.end(true)
EndTimeout ==
  /\ ~MicrotaskPending
  /\ bus.endTimers > 0
  /\ bus' = [endClient(bus, bus.client) EXCEPT !.endTimers = @ - 1]
  /\ UNCHANGED <<store, svc, starts, cycles, stopPc, cfg, hist, io>>

\* initialize() of a service that only opens the bus: new MqttService, connect()
BusCreate ==
  /\ ~svc.mqttService
  /\ svc' = [svc EXCEPT !.mqttService = TRUE]
  /\ bus' = connect(MqttServiceNew, "init")
  /\ UNCHANGED <<store, starts, cycles, stopPc, cfg, hist, io>>

\* disconnect() of the bus alone
BusDisconnect ==
  /\ svc.mqttService
  /\ bus.endTimers < MaxEndTimers
  /\ bus' = disconnect(bus)
  /\ UNCHANGED <<store, svc, starts, cycles, stopPc, cfg, hist, io>>

\* a connect() awaited by start s settles on a store or bus object that a later
\* start() has replaced: the replaced object's client connects, or fails, on its
\* own, and only the awaiting initialize() sees it
OrphanSettle(s, ok) ==
  /\ ~MicrotaskPending
  /\ starts[s] \in {"initStoreX", "initBusX"}
  /\ starts' = [starts EXCEPT ![s] = IF ~ok THEN "initFailed"
                                     ELSE IF @ = "initStoreX" THEN "afterStore"
                                     ELSE "afterInit"]
  /\ UNCHANGED <<bus, store, svc, cycles, stopPc, cfg, hist, io>>

TransportEvents ==
  \E k \in ClientIds : TConnect(k) \/ TError(k) \/ TClose(k) \/ TReconnect(k) \/ TConnectTimeout(k)

StoreEvents == RSocketConnect \/ RReady \/ RDrop \/ RGiveUp

StartSteps ==
  \E s \in StartIds : \/ StartAfterStore(s) \/ StartAfterInit(s)
                      \/ StartAfterCycle(s) \/ StartFail(s)
                      \/ \E r \in {"ok", "missing", "error"} : RegReadReply(s, r)
                      \/ \E ok \in BOOLEAN : RegPubAck(s, ok)

CycleSteps ==
  \E c \in CycleIds : \/ \E r \in {"absent", "error", "data"}, n \in 0..MaxBatch : ReadReply(c, r, n)
                      \/ \E ok \in BOOLEAN : PubAck(c, ok)

NoCycleInFlight == \A c \in CycleIds : cycles[c].pc = "idle"

\* Life cycle of one service: start() once (further start() calls arrive only
\* while it is running), stop() at any moment.  The environment keeps the poll
\* interval longer than a cycle and the watchdog period (20 s) does not elapse:
\* the bus recovers by the transport's built-in reconnect.
Next ==
  \/ \E s \in StartIds : StartCall(s) /\ (s = 1 \/ svc.isRunning)
  \/ StartSteps
  \/ StopCall
  \/ \E who \in 0..MaxStarts, ok \in BOOLEAN : QuitSettle(who, ok)
  \/ PollTick /\ NoCycleInFlight
  \/ CycleSteps
  \/ StoreEvents
  \/ TransportEvents
  \/ EndTimeout

Spec == Init /\ [][Next]_vars

\* start() and stop() called at any moment, also while a start() is awaiting.
\* The store and the bus connect or fail to; an established connection is not
\* lost, and the poll interval does not elapse.
NextStarts ==
  \/ \E s \in StartIds : StartCall(s)
  \/ StartSteps
  \/ \E s \in StartIds, ok \in BOOLEAN : OrphanSettle(s, ok)
  \/ StopCall
  \/ \E who \in 0..MaxStarts, ok \in BOOLEAN : QuitSettle(who, ok)
  \/ CycleSteps
  \/ RSocketConnect \/ RReady \/ RGiveUp
  \/ \E k \in ClientIds : TConnect(k) \/ TConnectTimeout(k)
  \/ EndTimeout

SpecStarts == Init /\ [][NextStarts]_vars

\* A started service polling: ticks arrive whatever the cycles in flight.
NextPoll ==
  \/ StartCall(1)
  \/ StartSteps
  \/ PollTick
  \/ CycleSteps
  \/ StoreEvents
  \/ TransportEvents

SpecPoll == Init /\ [][NextPoll]_vars

\* A started service through bus outages, watchdog included; the store stays up
\* once connected.
NextOutage ==
  \/ StartCall(1)
  \/ StartSteps
  \/ PollTick /\ NoCycleInFlight
  \/ CycleSteps
  \/ RSocketConnect \/ RReady
  \/ TransportEvents
  \/ WatchdogTick

SpecOutage == Init /\ [][NextOutage]_vars

\* the bus connection on its own: connect, transport events, watchdog, disconnect
NextBus == BusCreate \/ BusDisconnect \/ TransportEvents \/ WatchdogTick \/ EndTimeout

SpecBus == Init /\ [][NextBus]_vars

\* ---- operations called on their own
\* the service objects as constructed, nothing started
NotStarted ==
  /\ bus = MqttServiceNew
  /\ store = RedisServiceNew
  /\ svc = MqttPushServiceNew
  /\ starts = [s \in StartIds |-> "new"]
  /\ cycles = [c \in CycleIds |-> IdleCycle]
  /\ stopPc = "idle"
  /\ cfg = FALSE
  /\ hist = [stopCalled |-> FALSE, lastBegin |-> "none", lastTick |-> "none",
             lastRead |-> "none"]

\* "\\", "x" and the digit pairs "5c", "c3", "a9"
Pieces == {<<92>>, <<120>>, <<53, 99>>, <<99, 51>>, <<97, 57>>}

RECURSIVE Flatten(_)
Flatten(ps) == IF ps = <<>> THEN <<>> ELSE Head(ps) \o Flatten(Tail(ps))

\* the encoded texts: up to MaxPieces pieces in any order
EncodedTexts == {Flatten(ps) : ps \in UNION {[1..n -> Pieces] : n \in 0..MaxPieces}}

InitDecode ==
  /\ NotStarted
  /\ io \in {[op |-> "decodeUTF8", arg |-> a, once |-> <<>>, twice |-> <<>>] :
              a \in {Undefined, Num(7)} \cup {Str(e) : e \in EncodedTexts}}

\* decodeUTF8(arg)
DecodeCall ==
  /\ io.op = "decodeUTF8" /\ io.once = <<>>
  /\ io' = [io EXCEPT !.once = <<decodeUTF8(io.arg)>>]
  /\ UNCHANGED <<bus, store, svc, starts, cycles, stopPc, cfg, hist>>

\* decodeUTF8 called on what the first call returned
DecodeAgain ==
  /\ io.op = "decodeUTF8" /\ io.once # <<>> /\ io.twice = <<>>
  /\ io' = [io EXCEPT !.twice = <<decodeUTF8(io.once[1])>>]
  /\ UNCHANGED <<bus, store, svc, starts, cycles, stopPc, cfg, hist>>

NextDecode == DecodeCall \/ DecodeAgain

SpecDecode == InitDecode /\ [][NextDecode]_vars

\* raw min / max fields: not set, "", "x", "1x", "2", "-1", 1, 0
RawNumbers ==
  {Undefined, Str(<<>>), Str(<<120>>), Str(<<49, 120>>), Str(<<50>>), Str(<<45, 49>>),
   Num(1), Num(0)}

\* a raw value entry with code c and the given min and max
RawValue(c, min, max) ==
  Obj([ _id |-> Str(<<118>>), name |-> Str(<<92, 120, 52, 49>>), max |-> max, min |-> min,
        code |-> c, calc |-> Undefined ])

\* the raw value entries: every min / max pair under a known and an unknown
\* code, an entry that is null and one that is a number
RawValues ==
  {RawValue(c, min, max) : c \in {Str(<<65>>), Str(<<90>>)}, min \in RawNumbers, max \in RawNumbers}
    \cup {Null, Num(5)}

\* entries used in the value arrays of whole readings: a valid range, an
\* invalid range, null
SomeRawValues ==
  {RawValue(Str(<<65>>), Str(<<45, 49>>), Num(1)), RawValue(Str(<<65>>), Num(1), Num(0)), Null}

\* raw readings: SN not set, "", "S1"; ADDRESS not set, 0, 1; DES not set,
\* "", "\\x41"; name "", "n"; value not set or an array of up to MaxValues entries
RawReadings ==
  { Obj([SN |-> sn, ADDRESS |-> ad, DES |-> des, name |-> nm,
         profile |-> Undefined, value |-> val]) :
      sn \in {Undefined, Str(<<>>), Str(<<83, 49>>)},
      ad \in {Undefined, Num(0), Num(1)},
      des \in {Undefined, Str(<<>>), Str(<<92, 120, 52, 49>>)},
      nm \in {Str(<<>>), Str(<<110>>)},
      val \in {Undefined} \cup
              {Arr(a) : a \in UNION {[1..n -> SomeRawValues] : n \in 0..MaxValues}} }
    \cup {Null, Str(<<114>>)}

InitNormalize ==
  /\ NotStarted
  /\ io \in {[op |-> "processSingleSensor", arg |-> r, ret |-> <<>>] : r \in RawReadings}
        \cup {[op |-> "processValueArray", arg |-> a, ret |-> <<>>] :
                 a \in {Undefined} \cup {Arr(<<v>>) : v \in RawValues}}

\* processSingleSensor(arg)
ProcessSingleSensorCall ==
  /\ io.op = "processSingleSensor" /\ io.ret = <<>>
  /\ io' = [io EXCEPT !.ret = <<processSingleSensor(io.arg)>>]
  /\ UNCHANGED <<bus, store, svc, starts, cycles, stopPc, cfg, hist>>

\* processValueArray(arg)
ProcessValueArrayCall ==
  /\ io.op = "processValueArray" /\ io.ret = <<>>
  /\ io' = [io EXCEPT !.ret = <<processValueArray(io.arg)>>]
  /\ UNCHANGED <<bus, store, svc, starts, cycles, stopPc, cfg, hist>>

NextNormalize == ProcessSingleSensorCall \/ ProcessValueArrayCall

SpecNormalize == InitNormalize /\ [][NextNormalize]_vars

\* envelopes given to the batch publishes: device_info not set, with an empty
\* serial_number or with "D1"; SN not set or "S1"; ADDRESS not set, 0 or 1
Envelopes ==
  { Obj([ device_info |-> di, SN |-> sn, ADDRESS |-> ad,
          sensor_values |-> Arr(<<>>), profile |-> Str(<<112>>), metadata |-> Undefined ]) :
      di \in {Undefined, Obj([serial_number |-> Str(<<>>)]), Obj([serial_number |-> Str(<<68, 49>>)])},
      sn \in {Undefined, Str(<<83, 49>>)},
      ad \in {Undefined, Num(0), Num(1)} }

EnvelopeArrays == UNION {[1..n -> Envelopes] : n \in 0..MaxReadings}

InitPublish ==
  /\ NotStarted
  /\ io \in {[op |-> "publishBatchSensorDataWithDeviceName",
               sensorDataArray |-> a, deviceName |-> Str(<<68, 49>>), ret |-> <<>>] :
                a \in EnvelopeArrays}
        \cup {[op |-> "publishBatchSensorData", sensorDataArray |-> a, ret |-> <<>>] :
                 a \in EnvelopeArrays}

\* publishBatchSensorDataWithDeviceName(sensorDataArray, deviceName) on the bus as it is
PublishBatchWithDeviceNameCall ==
  /\ io.op = "publishBatchSensorDataWithDeviceName" /\ io.ret = <<>>
  /\ io' = [io EXCEPT !.ret =
              <<publishBatchSensorDataWithDeviceName(bus, io.sensorDataArray, io.deviceName)>>]
  /\ UNCHANGED <<bus, store, svc, starts, cycles, stopPc, cfg, hist>>

\* publishBatchSensorData(sensorDataArray) on the bus as it is
PublishBatchCall ==
  /\ io.op = "publishBatchSensorData" /\ io.ret = <<>>
  /\ io' = [io EXCEPT !.ret = <<publishBatchSensorData(bus, io.sensorDataArray)>>]
  /\ UNCHANGED <<bus, store, svc, starts, cycles, stopPc, cfg, hist>>

\* the batch publishes called on a bus that was not created, is connecting or
\* is connected
NextPublish ==
  \/ BusCreate
  \/ \E k \in ClientIds : TConnect(k)
  \/ PublishBatchWithDeviceNameCall
  \/ PublishBatchCall

SpecPublish == InitPublish /\ [][NextPublish]_vars

\* initialize() of a service that only opens the store: new RedisService, connect()
StoreCreate ==
  /\ ~svc.redisService
  /\ svc' = [svc EXCEPT !.redisService = TRUE]
  /\ store' = redisConnect(RedisServiceNew)
  /\ UNCHANGED <<bus, starts, cycles, stopPc, cfg, hist, io>>

\* getSensorData(key) called on the store as it is
GetSensorDataCall ==
  /\ svc.redisService
  /\ io' = [op |-> "getSensorData", ret |-> getSensorDataCommand(store)]
  /\ UNCHANGED <<bus, store, svc, starts, cycles, stopPc, cfg, hist>>

\* publishSensorData("S1", {}) called on the bus as it is
PublishSensorDataCall ==
  /\ svc.mqttService
  /\ io' = [op |-> "publishSensorData",
            ret |-> publishSensorData(bus, Str(<<83, 49>>), Obj([profile |-> Str(<<112>>)]))]
  /\ UNCHANGED <<bus, store, svc, starts, cycles, stopPc, cfg, hist>>

\* publishDeviceRegistration({deviceSN: "D1", ip: "1"}) called on the bus as it is
PublishDeviceRegistrationCall ==
  /\ svc.mqttService
  /\ io' = [op |-> "publishDeviceRegistration",
            ret |-> publishDeviceRegistration(bus,
                      Obj([deviceSN |-> Str(<<68, 49>>), ip |-> Str(<<49>>)]))]
  /\ UNCHANGED <<bus, store, svc, starts, cycles, stopPc, cfg, hist>>

\* the two connections through their events, with the data operations called
\* at any moment
NextData ==
  \/ StoreCreate
  \/ BusCreate
  \/ StoreEvents
  \/ TransportEvents
  \/ GetSensorDataCall
  \/ PublishSensorDataCall
  \/ PublishDeviceRegistrationCall

SpecData == Init /\ [][NextData]_vars

\* a raw reading with serial number sn, address ad and value array val
RawReading(sn, ad, val) ==
  Obj([SN |-> sn, ADDRESS |-> ad, DES |-> Str(<<100>>), name |-> Str(<<110>>),
       profile |-> Undefined, value |-> val])

\* items of the arrays given to processAndFormat: "S1" with a valid range,
\* "S2" without values, "S3" at address 0, one without SN, "S4" whose value
\* array holds null, and null
RawItems ==
  { RawReading(Str(<<83, 49>>), Num(1), Arr(<<RawValue(Str(<<65>>), Num(0), Num(1))>>)),
    RawReading(Str(<<83, 50>>), Num(2), Arr(<<>>)),
    RawReading(Str(<<83, 51>>), Num(0), Arr(<<>>)),
    RawReading(Undefined, Num(1), Arr(<<>>)),
    RawReading(Str(<<83, 52>>), Num(1), Arr(<<Null>>)),
    Null }

\* what is given to processAndFormat: arrays of up to MaxRaw items, and values
\* that are not arrays
RawInputs ==
  {Arr(a) : a \in UNION {[1..n -> RawItems] : n \in 0..MaxRaw}}
    \cup {Undefined, Null, Str(<<91, 93>>), Obj([SN |-> Str(<<83, 49>>), ADDRESS |-> Num(1)])}

InitFormat ==
  /\ NotStarted
  /\ io \in {[op |-> "processAndFormat", arg |-> a, ret |-> <<>>] : a \in RawInputs}

\* processAndFormat(arg)
ProcessAndFormatCall ==
  /\ io.op = "processAndFormat" /\ io.ret = <<>>
  /\ io' = [io EXCEPT !.ret = <<processAndFormat(io.arg)>>]
  /\ UNCHANGED <<bus, store, svc, starts, cycles, stopPc, cfg, hist>>

NextFormat == ProcessAndFormatCall

SpecFormat == InitFormat /\ [][NextFormat]_vars

\* error codes of a lost store connection
ErrorCodes == {"none", "ECONNREFUSED", "ETIMEDOUT"}

\* the store client about to ask retry_strategy: any attempt number, a
\* cumulative retry time around one hour
InitRetry ==
  /\ NotStarted
  /\ io \in {[op |-> "retry_strategy",
              options |-> [error |-> e, total_retry_time |-> t, attempt |-> a],
              ret |-> <<>>] :
               e \in ErrorCodes, a \in 1..MaxAttempt,
               t \in {0, 1000 * 60 * 60 - 100, 1000 * 60 * 60, 1000 * 60 * 60 + 1}}

\* the store client asks retry_strategy(options)
RetryStrategyCall ==
  /\ io.op = "retry_strategy" /\ io.ret = <<>>
  /\ io' = [io EXCEPT !.ret = <<retry_strategy(io.options)>>]
  /\ UNCHANGED <<bus, store, svc, starts, cycles, stopPc, cfg, hist>>

\* retry_strategy returned a delay: the client waits that long, the attempt
\* fails with code e and retry_strategy is asked again
RetryAfterDelay(e) ==
  /\ io.op = "retry_strategy" /\ io.ret # <<>> /\ io.ret[1].t = "number"
  /\ io' = [io EXCEPT !.options = [error |-> e,
                                   total_retry_time |-> @.total_retry_time + io.ret[1].v,
                                   attempt |-> @.attempt + 1],
                      !.ret = <<>>]
  /\ UNCHANGED <<bus, store, svc, starts, cycles, stopPc, cfg, hist>>

NextRetry == RetryStrategyCall \/ \E e \in ErrorCodes : RetryAfterDelay(e)

SpecRetry == InitRetry /\ [][NextRetry]_vars

\* codes of raw value entries: every code of the unit catalog, "?" and "h"
\* which it does not hold, and a code that is not set
RawCodes == {Str(unit[i].code) : i \in 1..Len(unit)} \cup {Str(<<63>>), Str(<<104>>), Undefined}

\* processValueArray called with one entry of every code
InitCatalog ==
  /\ NotStarted
  /\ io \in {[op |-> "processValueArray", arg |-> Arr(<<RawValue(c, min, max)>>), ret |-> <<>>] :
               c \in RawCodes, min \in {Undefined, Num(0)}, max \in {Num(1), Str(<<50>>)}}

NextCatalog == ProcessValueArrayCall

SpecCatalog == InitCatalog /\ [][NextCatalog]_vars

\* ------------------------------------------------------------- properties
InFlight == {c \in CycleIds : cycles[c].pc \in {"read", "pub"}}

NotReady == ~redisIsReady(store) \/ ~isReady(bus)

\* C1: poll cycles never overlap: at most one processSensorData invocation is
\* between its readiness check and its stats update.
C1_NoOverlap == Cardinality(InFlight) <= 1

\* C2: a poll cycle that begins while the store or the bus is not ready issues
\* no store read and no publish and leaves totalPublished, lastPublishTime and
\* errors unchanged (for the cycle start() runs, errors may only move by the
\* registration that precedes it in the same step).
C2_SkipWhenNotReady ==
  [][ /\ (PollTick /\ NotReady) => (cycles' = cycles /\ svc' = svc)
      /\ \A s \in StartIds :
           ( /\ NotReady
             /\ \/ StartAfterInit(s)
                \/ \E r \in {"ok", "missing", "error"} : RegReadReply(s, r)
                \/ \E ok \in BOOLEAN : RegPubAck(s, ok) )
           => /\ cycles' = cycles
              /\ svc'.totalPublished = svc.totalPublished
              /\ svc'.lastPublishTime = svc.lastPublishTime ]_vars

C2_Skipped == svc.isRunning /\ hist.lastBegin \in {"skipStore", "skipBus"} /\ NotReady

\* C3: a failure inside a poll cycle never terminates the scheduler: the
\* service stays running and its timer stays armed, also when the failing cycle
\* is the immediate one start() awaits.
C3_CycleFailureRecovered ==
  [][ /\ \A c \in CycleIds : ReadReply(c, "error", 0) =>
           /\ svc'.isRunning = svc.isRunning
           /\ svc'.pollTimers = svc.pollTimers
      /\ \A s \in StartIds : starts[s] = "cycleFailed" =>
           /\ svc'.isRunning = svc.isRunning
           /\ starts'[s] \notin {"failStopping", "rejected"} ]_vars

\* C4: bus outage while running: error / offline / close make isReady false
\* and leave the watchdog armed; a cycle beginning while the bus is not ready
\* is skipped; a connect event makes isReady true; the next cycle beginning
\* with both connections ready reads the store and hands its envelopes to the
\* transport.
C4_BusOutageScenario ==
  [][ /\ \A k \in ClientIds :
           (svc.isRunning /\ (TError(k) \/ TClose(k))) =>
             (~isReady(bus') /\ bus'.reconnectTimer /\ bus'.wdTimers > 0)
      /\ (PollTick /\ ~isReady(bus)) => (cycles' = cycles /\ svc' = svc)
      /\ \A k \in ClientIds : TConnect(k) => isReady(bus')
      /\ (PollTick /\ svc.isRunning /\ redisIsReady(store) /\ isReady(bus)) =>
           \E c \in CycleIds : cycles[c].pc = "idle" /\ cycles'[c].pc = "read"
      /\ \A c \in CycleIds, n \in 1..MaxBatch :
           (ReadReply(c, "data", n) /\ busUsable(bus)) =>
             (cycles'[c].pc = "pub" /\ cycles'[c].pend = n) ]_vars

\* polling resumed after a skipped cycle, on a client the watchdog created
C4_Resumed ==
  /\ hist.lastBegin = "resumed"
  /\ bus.nclients >= 2
  /\ \E c \in CycleIds : cycles[c].pc = "pub"

WatchdogAttemptPending == \E k \in ClientIds : bus.cprom[k] = "wd"

BuiltinReconnectActive == \E k \in ClientIds : bus.cstate[k] \in {"offline", "reconnecting"}

\* C5: at most one reconnect mechanism is retrying at a time: no watchdog
\* attempt is pending while a client runs its built-in reconnect, and the
\* watchdog does not tear down a client that is in its built-in reconnect.
C5_OneReconnectMechanism ==
  /\ [](~(WatchdogAttemptPending /\ BuiltinReconnectActive))
  /\ [][(WatchdogTick /\ ~bus.isConnected /\ bus.client # 0) =>
          bus.cstate[bus.client] \notin {"offline", "reconnecting"}]_vars

WatchdogActed == bus'.nclients # bus.nclients \/ bus'.cstate # bus.cstate \/ bus'.client # bus.client

\* C6: the watchdog only acts when isConnected is false; a tick that finds
\* isConnected true ends no client and creates none, and leaves the watchdog
\* disarmed.
C6_WatchdogOnlyWhenNotConnected ==
  [][WatchdogTick =>
       /\ WatchdogActed => ~bus.isConnected
       /\ bus.isConnected =>
            /\ ~WatchdogActed
            /\ ~bus'.reconnectTimer /\ ~bus'.manualReconnectEnabled
            /\ bus'.wdTimers = 0 ]_vars

\* the watchdog has torn down a client and created the next one
C6_WatchdogActed ==
  /\ hist.lastTick = "reconnect"
  /\ bus.nclients >= 2 /\ ~bus.isConnected /\ bus.cprom[bus.client] = "wd"

\* C7: at most one watchdog interval timer exists, it is the one
\* reconnectTimer references, and an error / offline / close event arriving
\* while the watchdog is armed leaves the arming state as it is.
C7_ArmIdempotent ==
  /\ [](/\ bus.wdTimers <= 1
        /\ bus.reconnectTimer <=> bus.wdTimers = 1
        /\ bus.manualReconnectEnabled <=> bus.reconnectTimer)
  /\ [][\A k \in ClientIds :
          ((TError(k) \/ TClose(k)) /\ bus.reconnectTimer) =>
            /\ bus'.wdTimers = bus.wdTimers
            /\ bus'.reconnectTimer
            /\ bus'.manualReconnectEnabled]_vars

\* armed by 'offline' and armed again by the 'close' of the same stream
C7_ArmedTwice ==
  /\ bus.wdTimers = 1 /\ bus.reconnectTimer
  /\ \E k \in ClientIds : bus.cstate[k] = "offline"

\* C8: a connect event sets isConnected, disarms the watchdog in the same step
\* and hands 'online' to the transport; no watchdog tick fires while
\* isConnected stays true.
C8_ConnectDisarms ==
  [][ /\ \A k \in ClientIds : TConnect(k) =>
           /\ bus'.isConnected
           /\ ~bus'.reconnectTimer /\ ~bus'.manualReconnectEnabled
           /\ bus'.wdTimers = 0
           /\ bus'.lastStatus = "online"
      /\ WatchdogTick => ~bus.isConnected ]_vars

\* connected on a client the watchdog created: the watchdog was armed before
C8_ConnectedAfterWatchdog ==
  /\ bus.nclients >= 2 /\ bus.cstate[bus.client] = "connected"
  /\ bus.isConnected /\ bus.wdTimers = 0 /\ bus.lastStatus = "online"

\* C9: start() while isRunning leaves connections, service fields, timers,
\* hooks and cycles as they are.
C9_StartIdempotent ==
  [][\A s \in StartIds : (StartCall(s) /\ svc.isRunning) =>
       UNCHANGED <<bus, store, svc, cycles>>]_vars

C9_StartedTwice == \E s \in StartIds : starts[s] = "noop" /\ svc.isRunning

\* C10: no poll cycle that begins after stop() was called (and before any
\* further start() call) reads the store or publishes.
C10_NoCycleAfterStop == \A c \in InFlight : ~cycles[c].afterStop

\* no start() invocation has got past initialize()
InitializeNeverCompleted ==
  \A s \in StartIds :
    starts[s] \in {"new", "initStore", "initStoreX", "afterStore", "initBus", "initBusX", "initFailed"}

\* C11: healthCheck() reports 'stopped' whenever stop() has run and start()
\* was not invoked again since, and whenever initialization never completed;
\* it reports 'healthy' only while the service is running.
C11_HealthStoppedAfterStop ==
  /\ hist.stopCalled => healthCheck(svc).status = "stopped"
  /\ InitializeNeverCompleted => healthCheck(svc).status = "stopped"
  /\ healthCheck(svc).status = "healthy" => svc.isRunning

\* C12: every envelope of a cycle is handed to the transport and Stats is
\* updated only when all publishes have settled; a failed publish leaves the
\* other publishes pending, does not fail the cycle, and errors grows by
\* exactly the number of failed publishes.
C12_BatchPublishSettles ==
  [][\A c \in CycleIds :
       /\ \A n \in 1..MaxBatch :
            ReadReply(c, "data", n) =>
              IF busUsable(bus)
              THEN cycles'[c].pc = "pub" /\ cycles'[c].pend = n /\ svc' = svc
              ELSE /\ svc'.errors = svc.errors + n
                   /\ svc'.lastPublishTime
                   /\ svc'.isRunning = svc.isRunning /\ svc'.pollTimers = svc.pollTimers
                   /\ cycles[c].src # 0 => starts'[cycles[c].src] = "afterCycle"
       /\ \A ok \in BOOLEAN :
            PubAck(c, ok) =>
              IF cycles[c].pend > 1
              THEN /\ svc' = svc
                   /\ cycles'[c].pc = "pub" /\ cycles'[c].pend = cycles[c].pend - 1
              ELSE /\ svc'.errors = svc.errors + cycles[c].fail + (IF ok THEN 0 ELSE 1)
                   /\ svc'.lastPublishTime
                   /\ svc'.isRunning = svc.isRunning /\ svc'.pollTimers = svc.pollTimers
                   /\ cycles[c].src # 0 => starts'[cycles[c].src] = "afterCycle" ]_vars

\* two envelopes were published and exactly one of the publishes failed
C12_OneOfTwoFailed ==
  /\ ~cfg /\ svc.isRunning /\ NoCycleInFlight
  /\ hist.lastRead = "data"
  /\ svc.totalPublished = 2 /\ svc.errors = 1 /\ svc.lastPublishTime

\* C16: when the sensor key is absent from the store, getSensorData returns an
\* empty sequence without raising, and the cycle hands nothing to the
\* transport and leaves errors, totalPublished and lastPublishTime unchanged.
C16_AbsentKeyNoPublish ==
  [][\A c \in CycleIds :
       ReadReply(c, "absent", 0) =>
         /\ getSensorData("absent") = "empty"
         /\ cycles'[c].pc = "idle" /\ bus' = bus
         /\ svc'.errors = svc.errors
         /\ svc'.totalPublished = svc.totalPublished
         /\ svc'.lastPublishTime = svc.lastPublishTime
         /\ cycles[c].src # 0 => starts'[cycles[c].src] = "afterCycle" ]_vars

\* a cycle found the key absent and the statistics are still the initial ones
C16_AbsentKeyRead ==
  /\ hist.lastRead = "absent" /\ svc.isRunning /\ NoCycleInFlight
  /\ svc.totalPublished = 0 /\ svc.errors = 0 /\ ~svc.lastPublishTime

\* C18: decodeUTF8 is idempotent: decoding what decodeUTF8 returned returns
\* the same string, also when the escaped bytes spell out the escape pattern.
C18_DecodeIdempotent ==
  (io.op = "decodeUTF8" /\ io.twice # <<>>) => io.twice = io.once

\* processSingleSensor has returned for a raw reading that is an object
Normalized == io.op = "processSingleSensor" /\ io.ret # <<>> /\ io.arg.t = "object"

\* C17: processSingleSensor returns a normalized reading for every raw reading
\* with a non-empty SN and an integer ADDRESS, whatever the address, and
\* returns null exactly when SN or ADDRESS is missing.
C17_NormalizeUnlessMissing ==
  Normalized =>
    LET SN == Prop(io.arg, "SN")
        ADDRESS == Prop(io.arg, "ADDRESS")
    IN (io.ret[1].t # "null")
         <=> (SN.t = "string" /\ SN.v # <<>> /\ ADDRESS.t = "number")

\* the status the claim gives a normalized reading r
ClaimedStatus(r) ==
  LET value == r.value.v
      valid == {i \in 1..Len(value) : value[i].t = "object" /\ value[i].v.range_valid}
  IN IF Len(value) = 0 THEN "no_values"
     ELSE IF valid = {} THEN "invalid_range"
     ELSE IF r.name.v = <<>> \/ r.DES.v = <<>> THEN "incomplete_info"
     ELSE "active"

\* C19 as stated: the status of a normalized reading is 'active' iff it has a
\* value with range_valid = true and its decoded name and description are
\* non-empty; otherwise it is the first unmet condition of no_values,
\* invalid_range, incomplete_info.
C19_StatusByPriority ==
  (Normalized /\ io.ret[1].t # "null") =>
    io.ret[1].v.status = ClaimedStatus(io.ret[1].v)

\* C19 amended: a normalized reading one of whose value entries is null has
\* status 'error'; any other normalized reading has the status stated above.
C19_StatusByPriorityOrError ==
  (Normalized /\ io.ret[1].t # "null") =>
    LET r == io.ret[1].v IN
    IF \E i \in 1..Len(r.value.v) : r.value.v[i].t = "null"
    THEN r.status = "error"
    ELSE r.status = ClaimedStatus(r)

\* a reading with a valid and an invalid range was given status 'active'
C19_ActiveReading ==
  /\ Normalized /\ io.ret[1].t # "null"
  /\ io.ret[1].v.status = "active"
  /\ Len(io.ret[1].v.value.v) = 2
  /\ \E i \in 1..2 : ~io.ret[1].v.value.v[i].v.range_valid

\* all of string s is a numeral
IsNumeral(s) ==
  LET from == IF Len(s) > 0 /\ s[1] = 45 THEN 2 ELSE 1
  IN from <= Len(s) /\ DigitRun(s, from) = Len(s) - from + 1

\* a raw field that is absent, empty or not numeric
NotNumeric(x) == x.t \in {"undefined", "null"} \/ (x.t = "string" /\ ~IsNumeral(x.v))

\* C20: range_valid of a normalized value is true iff min and max are not
\* null and min < max, and min / max are null whenever the raw field is
\* absent, empty or non-numeric.
C20_RangeValid ==
  (io.op = "processValueArray" /\ io.ret # <<>> /\ io.arg.t = "array") =>
    \A i \in 1..Len(io.arg.v) :
      LET raw == io.arg.v[i]
          out == io.ret[1].v[i]
      IN raw.t = "object" =>
           /\ out.v.range_valid <=>
                (out.v.min.t # "null" /\ out.v.max.t # "null" /\ out.v.min.v < out.v.max.v)
           /\ NotNumeric(Prop(raw, "min")) => out.v.min.t = "null"
           /\ NotNumeric(Prop(raw, "max")) => out.v.max.t = "null"

\* C13: publishBatchSensorDataWithDeviceName called with N readings for one
\* device name makes exactly one transport publish, to
\* {prefix}/{deviceName}/seninf, whose envelope holds the N sensor entries in
\* input order with total_sensors = N (on a bus that is not connected it
\* throws and publishes nothing); it never makes N separate publishes.
C13_OneEnvelopePerDevice ==
  [][PublishBatchWithDeviceNameCall =>
       LET out == io'.ret[1]
           N == Len(io.sensorDataArray)
       IN /\ Len(out.publishes) <= 1
          /\ ~busUsable(bus) => (out.publishes = <<>> /\ out.error = "NotConnected")
          /\ busUsable(bus) =>
               /\ out.error = "none" /\ Len(out.publishes) = 1
               /\ out.publishes[1].topic =
                    [prefix |-> "DEVICE_TOPIC_PREFIX", deviceName |-> io.deviceName.v,
                     leaf |-> "seninf"]
               /\ out.publishes[1].payload.device_info.total_sensors = N
               /\ Len(out.publishes[1].payload.sensors) = N
               /\ \A i \in 1..N :
                    /\ out.publishes[1].payload.sensors[i].device_info
                         = io.sensorDataArray[i].v.device_info
                    /\ out.publishes[1].payload.sensors[i].profile
                         = io.sensorDataArray[i].v.profile ]_vars

\* two readings went out in one publish
C13_TwoReadingsOnePublish ==
  /\ io.op = "publishBatchSensorDataWithDeviceName" /\ io.ret # <<>>
  /\ Len(io.sensorDataArray) = 2
  /\ Len(io.ret[1].publishes) = 1
  /\ io.ret[1].publishes[1].payload.device_info.total_sensors = 2

\* the device name the claim gives an envelope: the first that is available of
\* device_info.serial_number, SN, 'device_' + ADDRESS, else 'unknown_device'
ClaimedDeviceName(sensorData) ==
  LET serial == Prop(Prop(sensorData, "device_info"), "serial_number")
      SN == Prop(sensorData, "SN")
      ADDRESS == Prop(sensorData, "ADDRESS")
  IN IF serial.t = "string" /\ serial.v # <<>> THEN serial.v
     ELSE IF SN.t = "string" /\ SN.v # <<>> THEN SN.v
     ELSE IF ADDRESS.t = "number"
          THEN <<100, 101, 118, 105, 99, 101, 95>> \o NumberToString(ADDRESS.v)
          ELSE <<117, 110, 107, 110, 111, 119, 110, 95, 100, 101, 118, 105, 99, 101>>

\* C14: publishBatchSensorData publishes every reading of a batch to
\* {prefix}/{deviceName}/seninf with the device name resolved in the order
\* device_info.serial_number, SN, 'device_' + ADDRESS, 'unknown_device', and
\* resolving to the sentinel does not fail the batch.
C14_DeviceNameFallback ==
  [][PublishBatchCall =>
       LET out == io'.ret[1]
           N == Len(io.sensorDataArray)
       IN /\ out.error = "none"
          /\ busUsable(bus) =>
               /\ Len(out.publishes) = N
               /\ \A i \in 1..N :
                    out.publishes[i].topic =
                      [prefix |-> "DEVICE_TOPIC_PREFIX",
                       deviceName |-> ClaimedDeviceName(io.sensorDataArray[i]),
                       leaf |-> "seninf"] ]_vars

\* C15: a data operation called while the connection's isReady() is false
\* throws the not-connected error and hands nothing to the backend client:
\* publishSensorData and publishDeviceRegistration on the bus, getSensorData
\* on the store.
C15_NotConnectedWhenNotReady ==
  [][ /\ (PublishSensorDataCall \/ PublishDeviceRegistrationCall) =>
           (~isReady(bus) => (io'.ret.error = "NotConnected" /\ io'.ret.publishes = <<>>))
      /\ GetSensorDataCall =>
           (~redisIsReady(store) => (io'.ret.error = "NotConnected" /\ io'.ret.commands = 0))
    ]_vars

\* a raw item with a non-empty SN and an ADDRESS
WellFormed(raw) ==
  /\ raw.t = "object"
  /\ Prop(raw, "SN").t = "string" /\ Prop(raw, "SN").v # <<>>
  /\ Prop(raw, "ADDRESS").t = "number"

\* the well-formed items of a, in order
Survivors(a) == SelectSeq(a, LAMBDA raw : WellFormed(raw))

\* C21: processAndFormat never throws: an input that is not a sequence yields
\* an empty result; for a sequence every malformed item is dropped and every
\* well-formed item yields exactly one envelope, in input order, so the output
\* is no longer than the input.
C21_FormatDropsMalformed ==
  (io.op = "processAndFormat" /\ io.ret # <<>>) =>
    /\ io.ret[1].t = "array"
    /\ io.arg.t # "array" => io.ret[1].v = <<>>
    /\ io.arg.t = "array" =>
         LET out == io.ret[1].v
             kept == Survivors(io.arg.v)
         IN /\ Len(out) <= Len(io.arg.v)
            /\ Len(out) = Len(kept)
            /\ \A j \in 1..Len(out) :
                 /\ Prop(Prop(out[j], "device_info"), "serial_number") = Prop(kept[j], "SN")
                 /\ Prop(Prop(out[j], "device_info"), "address") = Prop(kept[j], "ADDRESS")
                 /\ Prop(out[j], "sensor_values").t = "array"
                 /\ Prop(Prop(out[j], "metadata"), "total_sensors")
                      = Num(Len(Prop(kept[j], "value").v))

\* one of the three halt conditions of the retry policy holds for options o
HaltCase(o) ==
  o.error = "ECONNREFUSED" \/ o.total_retry_time > 3600000 \/ o.attempt > 10

\* C22: the store retry policy halts (returns no delay, so that no further
\* attempt is scheduled) when the error is connection-refused, when the
\* cumulative retry time exceeds one hour and when the attempt count exceeds
\* 10; in every other case it returns the delay min(attempt * 100, 3000) ms,
\* so that no attempt beyond the 11th is ever made.
C22_RetryPolicyHalts ==
  /\ []((io.op = "retry_strategy" /\ io.ret # <<>>) =>
          IF HaltCase(io.options)
          THEN io.ret[1].t # "number"
          ELSE io.ret[1] = Num(Min(io.options.attempt * 100, 3000)))
  /\ [][\A e \in ErrorCodes : RetryAfterDelay(e) =>
          (~HaltCase(io.options) /\ io'.options.attempt <= 11)]_vars

\* the policy halted on the 11th attempt alone: no refusal, under one hour
C22_HaltedOnAttempts ==
  /\ io.op = "retry_strategy" /\ io.ret = <<Undefined>>
  /\ io.options.attempt = 11 /\ io.options.error = "ETIMEDOUT"
  /\ io.options.total_retry_time = 5500

\* start invocation s goes on to the immediate poll cycle with one more error counted
RegistrationFailureCounted(s) ==
  /\ svc'.errors = svc.errors + 1
  /\ svc'.totalPublished = svc.totalPublished
  /\ svc'.pollTimers = svc.pollTimers
  /\ starts'[s] \in {"cycle", "afterCycle"}
  /\ starts'[s] = "cycle" <=> \E c \in CycleIds : cycles[c].pc = "idle" /\ cycles'[c].pc = "read"

\* C23: device registration is best-effort: when registerDevice fails (a
\* connection is not ready, DeviceSN or ip cannot be read from the store, the
\* registration publish throws or is rejected), errors grows by one and
\* start() goes on to the immediate poll cycle, after which it arms the
\* poll timer.
C23_RegistrationBestEffort ==
  [][\A s \in StartIds :
       /\ (StartAfterInit(s) /\ cfg /\ RegisterThrowsAtOnce) =>
            (svc'.isRunning /\ RegistrationFailureCounted(s))
       /\ \A r \in {"ok", "missing", "error"} :
            (RegReadReply(s, r) /\ (r # "ok" \/ ~busUsable(bus))) =>
              RegistrationFailureCounted(s)
       /\ RegPubAck(s, FALSE) => RegistrationFailureCounted(s)
       /\ StartAfterCycle(s) => (svc'.pollTimer /\ svc'.pollTimers = svc.pollTimers + 1)
    ]_vars

\* registration failed, the immediate cycle found the key absent, and start()
\* completed with the poll timer armed
C23_StartedAfterFailedRegistration ==
  /\ cfg /\ starts[1] = "done" /\ svc.isRunning /\ svc.pollTimer
  /\ svc.errors = 1 /\ svc.totalPublished = 0
  /\ hist.lastRead = "absent" /\ NoCycleInFlight

\* start invocation s is rejecting or has rejected
Rejecting(s) == starts[s] \in {"failStopping", "rejected"}

\* C24: initialize() connects the store first and creates and connects the bus
\* only after the store connect succeeded; when either connect fails, start()
\* runs stop() and rejects: isRunning stays false, no poll cycle is begun and
\* no poll timer is armed.
C24_InitializeSequentialFatal ==
  /\ [](\A s \in StartIds :
          /\ starts[s] \in {"initStore", "initStoreX"} =>
               (~svc.mqttService /\ bus = MqttServiceNew)
          /\ starts[s] = "initFailed" =>
               /\ ~svc.isRunning /\ svc.pollTimers = 0 /\ ~svc.pollTimer
               /\ NoCycleInFlight /\ hist.lastBegin = "none"
               /\ ~svc.mqttService => bus = MqttServiceNew)
  /\ [][ /\ (bus.nclients = 0 /\ bus'.nclients > 0) =>
              \E s \in StartIds : StartAfterStore(s) /\ store.rstate = "ready"
         /\ RGiveUp => \A s \in StartIds :
              starts[s] = "initStore" => (starts'[s] = "initFailed" /\ bus' = MqttServiceNew)
         /\ \A k \in ClientIds :
              ((TError(k) \/ TConnectTimeout(k)) /\ bus.cprom[k] = "init") =>
                 \A s \in StartIds : starts[s] = "initBus" => starts'[s] = "initFailed"
         /\ \A s \in StartIds :
              /\ (StartFail(s) /\ starts[s] = "initFailed") =>
                   /\ Rejecting(s)'
                   /\ ~svc'.isRunning /\ svc'.pollTimers = 0 /\ ~svc'.pollTimer
                   /\ cycles' = cycles /\ hist'.lastBegin = "none"
              /\ Rejecting(s) => (Rejecting(s)' /\ ~svc'.isRunning /\ svc'.pollTimers = 0)
       ]_vars

\* the store connected, the bus connect failed, and start() rejected
C24_RejectedOnBusFailure ==
  /\ starts[1] = "rejected" /\ svc.mqttService /\ svc.redisService
  /\ ~svc.isRunning /\ svc.pollTimers = 0 /\ hist.lastBegin = "none" /\ NoCycleInFlight

\* C25: the statistics are monotone over the life of the process: whatever
\* start, poll cycles, registration and stop do, totalPublished and errors
\* never decrease, startTime never changes, and lastPublishTime, once set,
\* is never absent again.
C25_StatsMonotone ==
  [][ /\ svc'.totalPublished >= svc.totalPublished
      /\ svc'.errors >= svc.errors
      /\ svc'.startTime = svc.startTime
      /\ svc.lastPublishTime => svc'.lastPublishTime ]_vars

\* stop() has run on a service that had published and counted an error
C25_StoppedWithStats ==
  /\ hist.stopCalled /\ ~svc.isRunning /\ stopPc = "idle" /\ store.rstate = "ended"
  /\ svc.totalPublished = 2 /\ svc.errors = 1 /\ svc.lastPublishTime
  /\ svc.startTime = "constructed"

\* client.end has been called on client k
EndIssued(b, k) == b.cstate[k] \in {"ending", "endingC", "ended"}

\* C26: disconnect() of the bus disarms the watchdog, hands 'offline' to the
\* transport and only schedules the close: the client is ended by the timer
\* that disconnect() set, never by disconnect() itself and so never before the
\* offline publish; disconnect() completes whatever state the bus is in.
C26_DisconnectOrder ==
  [][ /\ BusDisconnect =>
           /\ ~bus'.reconnectTimer /\ ~bus'.manualReconnectEnabled /\ bus'.wdTimers = 0
           /\ bus'.lastStatus = "offline"
           /\ bus'.cstate = bus.cstate /\ bus'.client = bus.client
           /\ bus'.endTimers = bus.endTimers + 1
      /\ bus'.endTimers > bus.endTimers => (BusDisconnect /\ bus'.lastStatus = "offline")
      /\ EndTimeout =>
           /\ bus.endTimers > 0
           /\ EndIssued(bus', bus.client)
      /\ \A k \in ClientIds :
           (~EndIssued(bus, k) /\ EndIssued(bus', k)) => (EndTimeout \/ WatchdogTick)
    ]_vars

\* disconnect() has run on a connected bus and the close is still pending
C26_OfflineBeforeClose ==
  /\ bus.lastStatus = "offline" /\ bus.endTimers = 1
  /\ bus.client # 0 /\ bus.cstate[bus.client] = "connected"
  /\ ~bus.reconnectTimer /\ bus.wdTimers = 0

\* what the synchronous part of stop() leaves behind: not running, the poll
\* timer cancelled, the bus disconnect done (watchdog disarmed, 'offline'
\* handed over, close scheduled) and the store not yet closed
StopEffect ==
  /\ ~svc'.isRunning /\ ~svc'.pollTimer
  /\ svc'.pollTimers = svc.pollTimers - (IF svc.pollTimer THEN 1 ELSE 0)
  /\ svc.mqttService =>
       /\ bus'.lastStatus = "offline" /\ bus'.wdTimers = 0 /\ ~bus'.reconnectTimer
       /\ bus'.endTimers = bus.endTimers + 1
  /\ ~svc.mqttService => bus' = bus
  /\ store' = store

\* C27: stop() sets isRunning = false and cancels the poll timer, disconnects
\* the bus and then the store: the store is closed only by the quit that
\* stop() issues after the bus disconnect; a failed quit is swallowed and
\* stop() completes normally.
C27_StopOrder ==
  [][ /\ StopCall =>
           (StopEffect /\ stopPc' = IF svc.redisService THEN "quitting" ELSE "idle")
      /\ \A s \in StartIds : StartFail(s) =>
           (StopEffect /\ starts'[s] = IF svc.redisService THEN "failStopping" ELSE "rejected")
      /\ \A ok \in BOOLEAN :
           QuitSettle(0, ok) =>
             /\ stopPc' = "idle" /\ svc' = svc /\ bus' = bus
             /\ store' = IF ok THEN [rstate |-> "ended", isConnected |-> FALSE] ELSE store
      /\ (stopPc = "quitting" /\ stopPc' # "quitting") => stopPc' = "idle"
    ]_vars

\* stop() of a started service is waiting for the store to quit: the timer is
\* cancelled and the bus disconnect is done
C27_StoppingStore ==
  /\ stopPc = "quitting" /\ starts[1] = "done" /\ hist.stopCalled
  /\ ~svc.isRunning /\ svc.pollTimers = 0
  /\ bus.lastStatus = "offline" /\ bus.endTimers = 1
  /\ store.rstate = "ready"

\* the immediate cycle of start invocation s is in flight
ImmediateCycleInFlight(s) == \E c \in CycleIds : cycles[c].pc # "idle" /\ cycles[c].src = s

\* C28: start() orders its steps: while the registration is in progress no
\* poll cycle has begun; while the immediate cycle is in flight the poll timer
\* is not armed; the timer is armed only when the immediate cycle has
\* returned, and the shutdown hooks are installed only with the timer armed.
C28_StartStepOrder ==
  /\ [](\A s \in StartIds :
          /\ starts[s] \in {"afterInit", "regRead", "regPub"} =>
               /\ hist.lastBegin = "none" /\ NoCycleInFlight
               /\ svc.pollTimers = 0 /\ svc.hooks = 0
          /\ starts[s] = "cycle" =>
               (ImmediateCycleInFlight(s) /\ svc.pollTimers = 0 /\ svc.hooks = 0)
          /\ ImmediateCycleInFlight(s) => starts[s] = "cycle")
  /\ [][ /\ svc'.pollTimers > svc.pollTimers =>
              \E s \in StartIds : StartAfterCycle(s) /\ ~ImmediateCycleInFlight(s)
         /\ svc'.hooks > svc.hooks =>
              (svc'.pollTimer /\ \E s \in StartIds : StartAfterCycle(s))
         /\ \A s \in StartIds :
              (starts[s] \in {"afterInit", "regRead", "regPub"} /\ starts'[s] # starts[s]) =>
                 starts'[s] \in {"regRead", "regPub", "cycle", "afterCycle"}
       ]_vars

\* the registration was published and acknowledged, and the immediate cycle is
\* in flight with no timer armed and no hooks installed
C28_CycleAfterRegistration ==
  /\ cfg /\ starts[1] = "cycle" /\ ImmediateCycleInFlight(1)
  /\ svc.errors = 0 /\ svc.pollTimers = 0 /\ svc.hooks = 0 /\ svc.isRunning

\* the bus connected at least once and disconnect() has not been called since
\* its last connect: 'online' is the last presence message handed over
ConnectedOnceNotDisconnected == bus.lastStatus = "online"

\* C29: between the first successful connect and an explicit disconnect() the
\* bus never gives up reconnecting: whenever isConnected is false the
\* watchdog is armed and its interval timer exists.
C29_WatchdogWhileNotConnected ==
  (ConnectedOnceNotDisconnected /\ ~bus.isConnected) =>
    (bus.reconnectTimer /\ bus.manualReconnectEnabled /\ bus.wdTimers = 1)

\* connected once, the watchdog has replaced the client twice and is still armed
C29_StillRetrying ==
  /\ ConnectedOnceNotDisconnected /\ ~bus.isConnected
  /\ bus.nclients = 3 /\ bus.cstate[1] = "ended" /\ hist.lastTick = "reconnect"
  /\ bus.reconnectTimer /\ bus.wdTimers = 1

\* C30: the type of every normalized value is the name the unit catalog
\* registers for its code (getUnitByCode(code).name) whenever the catalog
\* holds the code, and the 'unknown' default only when it does not.
C30_TypeFromCatalog ==
  (io.op = "processValueArray" /\ io.ret # <<>> /\ io.arg.t = "array") =>
    \A i \in 1..Len(io.arg.v) :
      LET raw == io.arg.v[i]
          out == io.ret[1].v[i]
          entry == getUnitByCode(Prop(raw, "code"))
      IN raw.t = "object" =>
           /\ entry # Null => out.v.type = Prop(entry, "name")
           /\ out.v.type = Str(<<26410, 30693, 39006, 22411>>) => entry = Null

\* C31: events of a torn-down client do not touch its replacement: once the
\* client created by attemptReconnect has emitted connect, a late close,
\* offline or error event of an earlier client leaves isConnected true and the
\* watchdog disarmed, so the new connection stays ready.
C31_StaleEventsIgnored ==
  [][\A k \in ClientIds :
       ((TClose(k) \/ TError(k)) /\ k # bus.client /\ isReady(bus)) =>
          (isReady(bus') /\ ~bus'.reconnectTimer /\ bus'.wdTimers = 0)]_vars


\* C32: at most one watchdog-driven reconnect attempt is in flight: a watchdog
\* tick starts no teardown-and-connect while the connect() of an attempt
\* started by an earlier tick is still pending.
C32_OneWatchdogAttempt ==
  /\ [](Cardinality({k \in ClientIds : bus.cprom[k] = "wd"}) <= 1)
  /\ [][(WatchdogTick /\ WatchdogAttemptPending) =>
          (bus'.nclients = bus.nclients /\ bus'.client = bus.client)]_vars

\* disconnect() has been called and the bus has not connected since: 'offline'
\* is the last presence message handed over
Disconnected == bus.lastStatus = "offline"

\* C33: after disconnect() of the bus the watchdog stays disarmed and no
\* reconnect is attempted: the close event that follows the end issued by
\* disconnect() does not arm the watchdog, no client is created and the bus
\* does not become connected again.
C33_DisconnectIsFinal ==
  /\ [][\A k \in ClientIds :
          (TClose(k) /\ Disconnected /\ k = bus.client /\ bus.cstate[k] \in {"ending", "endingC"}) =>
             (~bus'.reconnectTimer /\ bus'.wdTimers = 0)]_vars
  /\ [](Disconnected => (~bus.reconnectTimer /\ bus.wdTimers = 0))
  /\ [][Disconnected => (bus'.nclients = bus.nclients /\ ~bus'.isConnected)]_vars

\* C34: a poll cycle that fails with one error (its store read throws)
\* increases errors by exactly one, for a cycle started by the poll timer as
\* for the one started by start().
C34_OneErrorPerFailedCycle ==
  [][\A c \in CycleIds :
       ReadReply(c, "error", 0) => svc'.errors = svc.errors + 1]_vars

\* C35: after a poll cycle totalPublished has grown by exactly the number of
\* envelopes whose publish the bus acknowledged in that cycle; an envelope
\* whose publish failed is counted in errors and not in totalPublished.
C35_PublishedCountsAcknowledged ==
  [][\A c \in CycleIds :
       /\ \A ok \in BOOLEAN :
            (PubAck(c, ok) /\ cycles[c].pend = 1) =>
               LET failed == cycles[c].fail + (IF ok THEN 0 ELSE 1) IN
               /\ svc'.totalPublished = svc.totalPublished + (cycles[c].n - failed)
               /\ svc'.errors = svc.errors + failed
       /\ \A n \in 1..MaxBatch :
            (ReadReply(c, "data", n) /\ ~busUsable(bus)) =>
               (svc'.totalPublished = svc.totalPublished /\ svc'.errors = svc.errors + n)
    ]_vars

\* C36: at most one poll interval timer is live and pollTimer references it,
\* whatever the interleaving of start() and stop(); once stop() has been called
\* and every start() in progress has returned, no poll timer is live.
StartsReturned == \A s \in StartIds : starts[s] \in {"new", "noop", "done", "rejected"}

C36_OnePollTimer ==
  /\ svc.pollTimers <= 1
  /\ svc.pollTimer <=> svc.pollTimers = 1
  /\ (hist.stopCalled /\ stopPc = "idle" /\ StartsReturned) => svc.pollTimers = 0

\* C37: stop() does not complete before the bus transport has been closed:
\* when a stop() that disconnected the bus returns, no close of the bus is
\* still waiting on a timer and the end of the bus client has been issued.
C37_StopAwaitsBusClose ==
  [][\A who \in 0..MaxStarts, ok \in BOOLEAN :
       (QuitSettle(who, ok) /\ Disconnected) =>
          (bus'.endTimers = 0 /\ EndIssued(bus', bus'.client))]_vars

\* C38: the batch publish of a poll cycle (publishBatchSensorData, on a usable
\* bus, every reading carrying its device's serial number) hands the transport
\* at most one reading message per device name: no two of its publishes go to
\* the same topic.
SerialNumbered(sensorDataArray) ==
  \A i \in 1..Len(sensorDataArray) :
     /\ Truthy(Prop(sensorDataArray[i], "device_info"))
     /\ Truthy(Prop(Prop(sensorDataArray[i], "device_info"), "serial_number"))

C38_OneMessagePerDevice ==
  [][(PublishBatchCall /\ busUsable(bus) /\ SerialNumbered(io.sensorDataArray)) =>
        LET pubs == io'.ret[1].publishes IN
        \A i, j \in 1..Len(pubs) : i # j => pubs[i].topic # pubs[j].topic]_vars

====
